---- MODULE Spec2Model ----
(***************************************************************************)
(* Pattern detection (analyzePattern of the two pattern-review pages, for  *)
(* one vendor group and for the batch of a client), the amounts and        *)
(* overrides of the pattern-review page, the one-at-a-time review page,    *)
(* the rows and the cell editing of the forecast spreadsheets, the         *)
(* forecast record life cycle (generate / reconcile, cash balances),       *)
(* reconcile uploads (concurrent panels, one panel over time), the         *)
(* batched insert of POST /api/save-transactions and the vendor-mapping    *)
(* page of cfo-forecast.                                                   *)
(*                                                                         *)
(* Dates are whole days counted from the UTC day of "now": 0 is today,     *)
(* -7 is a week ago.  transaction_date is a DATE column, so                *)
(* new Date(transaction_date) is UTC midnight of that day and every        *)
(* difference of two dates is a whole number of days.  Averages are kept   *)
(* as exact fractions (sum over count) and compared by cross               *)
(* multiplication.                                                         *)
(***************************************************************************)
EXTENDS Integers, Sequences, FiniteSets, TLC

VARIABLES transactions, nowIsMidnight, pc, result, records, op, nops,
          cash_balances, forecast_periods,
          dashboardRes, dashboardData, rowData, sheet,
          panel, week_lock, snapshot,
          patterns, patternRecords, reviewPc,
          groupedByDisplay, patternAnalysis, batchPc,
          editing, cellUpdates,
          patternsV2, currentIndex, showAll, editMode, editedPattern, saving, inflight, v2pc,
          saveRequest, savePc, saveI, totalInserted, txTable, saveResponse,
          vendorsTable, vendors, mappingChanges, mapSaving, mapPc, mapAlert, storedBefore, vendorRecords,
          isUploading, uploadStatus, selectedWeek, requests, attempts, completed

patternVars == <<transactions, nowIsMidnight, pc, result>>
forecastVars == <<records, op, nops, cash_balances, forecast_periods>>
sheetVars == <<dashboardRes, dashboardData, rowData, sheet>>
panelVars == <<panel, week_lock, snapshot>>
reviewVars == <<patterns, patternRecords, reviewPc>>
batchVars == <<groupedByDisplay, patternAnalysis, batchPc>>
editVars == <<editing, cellUpdates>>
v2Vars == <<patternsV2, currentIndex, showAll, editMode, editedPattern, saving, inflight, v2pc>>
saveVars == <<saveRequest, savePc, saveI, totalInserted, txTable, saveResponse>>
mapVars == <<vendorsTable, vendors, mappingChanges, mapSaving, mapPc, mapAlert, storedBefore, vendorRecords>>
dropVars == <<isUploading, uploadStatus, selectedWeek, requests, attempts, completed>>
vars == <<transactions, nowIsMidnight, pc, result, records, op, nops,
          cash_balances, forecast_periods,
          dashboardRes, dashboardData, rowData, sheet,
          panel, week_lock, snapshot,
          patterns, patternRecords, reviewPc,
          groupedByDisplay, patternAnalysis, batchPc,
          editing, cellUpdates,
          patternsV2, currentIndex, showAll, editMode, editedPattern, saving, inflight, v2pc,
          saveRequest, savePc, saveI, totalInserted, txTable, saveResponse,
          vendorsTable, vendors, mappingChanges, mapSaving, mapPc, mapAlert, storedBefore, vendorRecords,
          isUploading, uploadStatus, selectedWeek, requests, attempts, completed>>

----------------------------------------------------------------------------
(* Bounds of the model *)

\* longest list of arbitrary gaps fed to analyzePattern (gaps + 1 transactions)
MaxGaps == 3
\* longest perfectly regular run of gaps (MaxRegular + 1 transactions)
MaxRegular == 9

\* gap values (days) the arbitrary lists are built from: both sides of every
\* bucket edge, 0 for transactions sharing a date, and large gaps
GapValues == {0, 1, 2, 7, 8, 9, 17, 18, 35, 36, 100, 105}
\* gap of the regular runs, and the outlier gap that may be added to one
RegularGaps == {1, 7, 14, 30}
OutlierGaps == {0, 60}
\* date of the newest transaction: today, around the edge of the lookback
\* window, older than it, and post-dated (the filter has no upper end)
LastOffsets == {125, 0, -82, -89, -90, -91}

----------------------------------------------------------------------------
(* Helpers *)

Abs(x) == IF x < 0 THEN 0 - x ELSE x

RECURSIVE SumSeq(_)
SumSeq(s) == IF s = <<>> THEN 0 ELSE Head(s) + SumSeq(Tail(s))

\* Math.round of the non-negative fraction num / den (den > 0): half rounds up
RoundDiv(num, den) == (2 * num + den) \div (2 * den)

Range(s) == {s[i] : i \in 1..Len(s)}

\* dates, newest first, of the list whose newest date is last and whose
\* consecutive gaps are gaps
RECURSIVE DatesFrom(_, _)
DatesFrom(last, gaps) ==
  IF gaps = <<>> THEN <<last>>
  ELSE <<last>> \o DatesFrom(last - Head(gaps), Tail(gaps))

RECURSIVE SeqsUpTo(_, _)
SeqsUpTo(S, n) ==
  IF n = 0 THEN {<<>>}
  ELSE LET shorter == SeqsUpTo(S, n - 1)
       IN  shorter \cup {Append(s, x) : s \in {t \in shorter : Len(t) = n - 1}, x \in S}

Regular(d, n) == [i \in 1..n |-> d]

\* a regular run with one extra gap x inserted after position k (0..n)
WithOutlier(d, n, x, k) ==
  [i \in 1..(n + 1) |-> IF i = k + 1 THEN x ELSE d]

GapLists ==
  SeqsUpTo(GapValues, MaxGaps)
    \cup {Regular(d, n) : d \in RegularGaps, n \in 1..MaxRegular}
    \cup {WithOutlier(d, 4, x, k) : d \in RegularGaps, x \in OutlierGaps,
                                    k \in {0, 2, 4}}

----------------------------------------------------------------------------
(* analyzePattern *)

LookbackDays == 90

\* a transaction_date string new Date cannot parse: the Date is invalid, its
\* getTime() is NaN.  No day count equals this value.
InvalidDate == 0 - 100000

\* the lookback filter letting unparsable dates through
InLookbackKeepingInvalid(d, midnight) ==
  IF d = InvalidDate THEN TRUE
  ELSE IF midnight THEN d >= 0 - LookbackDays ELSE d > 0 - LookbackDays

\* new Date(tx.transaction_date) >= ninetyDaysAgo, where ninetyDaysAgo is
\* now - 90 days: a date exactly 90 days back passes only at UTC midnight,
\* and an invalid Date compares as NaN, so the comparison is false
InLookback(d, midnight) ==
  IF d = InvalidDate THEN FALSE
  ELSE IF midnight THEN d >= 0 - LookbackDays ELSE d > 0 - LookbackDays

recentTxsOf(txs, midnight) == SelectSeq(txs, LAMBDA d : InLookback(d, midnight))

intervalsOf(recentTxs) ==
  [i \in 1..(Len(recentTxs) - 1) |-> Abs(recentTxs[i] - recentTxs[i + 1])]

\* avgInterval <= bound, avgInterval being sum / n and bound being num / den
AvgLeq(sum, n, num, den) == sum * den <= num * n

\* PatternOf with the weekly bucket ending below 7 days
PatternOfWeeklyBelow7(sum, n) ==
  IF AvgLeq(sum, n, 3, 2) THEN [pattern |-> "daily", interval |-> 1]
  ELSE IF AvgLeq(sum, n, 6, 1) THEN [pattern |-> "weekly", interval |-> 7]
  ELSE IF AvgLeq(sum, n, 17, 1) THEN [pattern |-> "bi-weekly", interval |-> 14]
  ELSE IF AvgLeq(sum, n, 35, 1) THEN [pattern |-> "monthly", interval |-> 30]
  ELSE IF AvgLeq(sum, n, 100, 1) THEN [pattern |-> "quarterly", interval |-> 90]
  ELSE [pattern |-> "irregular", interval |-> 0]

\* the if / else-if chain on avgInterval
PatternOf(sum, n) ==
  IF AvgLeq(sum, n, 3, 2) THEN [pattern |-> "daily", interval |-> 1]
  ELSE IF AvgLeq(sum, n, 8, 1) THEN [pattern |-> "weekly", interval |-> 7]
  ELSE IF AvgLeq(sum, n, 17, 1) THEN [pattern |-> "bi-weekly", interval |-> 14]
  ELSE IF AvgLeq(sum, n, 35, 1) THEN [pattern |-> "monthly", interval |-> 30]
  ELSE IF AvgLeq(sum, n, 100, 1) THEN [pattern |-> "quarterly", interval |-> 90]
  ELSE [pattern |-> "irregular", interval |-> 0]

\* n * n * avgVariance: the sum over the intervals of |n * i - sum|
DeviationSum(intervals) ==
  LET n == Len(intervals)
      sum == SumSeq(intervals)
  IN  SumSeq([k \in 1..n |-> Abs(n * intervals[k] - sum)])

\* Math.round(Math.max(0, Math.min(100, 100 - avgVariance / avgInterval * 100)))
\* avgVariance / avgInterval = dev / (n * sum); with sum = 0 it is 0 / 0 = NaN,
\* which Math.min, Math.max and Math.round all pass through
ConfidenceOf(intervals) ==
  LET n == Len(intervals)
      sum == SumSeq(intervals)
      dev == DeviationSum(intervals)
  IN  IF sum = 0 THEN [nan |-> TRUE, value |-> 0]
      ELSE IF dev >= n * sum THEN [nan |-> FALSE, value |-> 0]
      ELSE [nan |-> FALSE, value |-> RoundDiv(100 * (n * sum - dev), n * sum)]

\* no analysis yet.  next_date counts only where has_next_date is TRUE;
\* raised tells that the analysis threw instead of returning
NoResult ==
  [detected_pattern |-> "none", detected_interval |-> 0,
   confidence |-> 0, confidence_nan |-> FALSE,
   has_next_date |-> FALSE, next_date |-> 0, raised |-> FALSE]

\* the early returns of pattern-review: no next_date property
InsufficientData ==
  [detected_pattern |-> "irregular", detected_interval |-> 0,
   confidence |-> 0, confidence_nan |-> FALSE,
   has_next_date |-> FALSE, next_date |-> 0, raised |-> FALSE]

\* the early returns of pattern-review-v2: nextDate is today
InsufficientDataV2 ==
  [detected_pattern |-> "irregular", detected_interval |-> 0,
   confidence |-> 0, confidence_nan |-> FALSE,
   has_next_date |-> TRUE, next_date |-> 0, raised |-> FALSE]

\* nextDate.toISOString() throws RangeError on an invalid Date
Raised == [NoResult EXCEPT !.raised = TRUE]

\* the part of analyzePattern after the early returns: intervals, pattern,
\* confidence, and next date = newest recent date + interval days
Classified(recentTxs) ==
  LET intervals == intervalsOf(recentTxs)
      p == PatternOf(SumSeq(intervals), Len(intervals))
      c == ConfidenceOf(intervals)
  IN  IF recentTxs[1] = InvalidDate THEN Raised
      ELSE [detected_pattern |-> p.pattern,
            detected_interval |-> p.interval,
            confidence |-> c.value,
            confidence_nan |-> c.nan,
            has_next_date |-> TRUE,
            next_date |-> recentTxs[1] + p.interval,
            raised |-> FALSE]

analyzePattern(txs, midnight) ==
  IF Len(txs) < 2 THEN InsufficientData
  ELSE LET recentTxs == recentTxsOf(txs, midnight)
       IN  IF Len(recentTxs) < 2 THEN InsufficientData
           ELSE Classified(recentTxs)

\* pattern-review-v2 carries the same classification under other field
\* names; its early returns give today as the next date
analyzePatternV2(txs, midnight) ==
  IF Len(txs) < 2 THEN InsufficientDataV2
  ELSE LET recentTxs == recentTxsOf(txs, midnight)
       IN  IF Len(recentTxs) < 2 THEN InsufficientDataV2
           ELSE Classified(recentTxs)

----------------------------------------------------------------------------
(* The amounts of the pattern-review page: the amount analyzePattern       *)
(* detects, the override typed into the Average Amount field, and the      *)
(* record savePatterns prepares.  Amounts are exact fractions num / den.   *)

\* transaction dates (days from today) in three successive 30-day months of
\* the lookback window, and one older than the window
AmountDates == {-5, -35, -65, -100}

TxAmounts == {-40, 40, 42, 44}

\* the transactions of one vendor group as the query returns them: newest first
AmountHistories ==
  {txs \in SeqsUpTo([transaction_date : AmountDates, amount : TxAmounts], Cardinality(AmountDates)) :
     \A i \in 1..(Len(txs) - 1) : txs[i].transaction_date > txs[i + 1].transaction_date}

recentAmountTxsOf(txs) ==
  SelectSeq(txs, LAMBDA tx : InLookback(tx.transaction_date, FALSE))

\* detected_amount: transactions[0]?.amount || 0 on the early returns, else
\* the mean of Math.abs(tx.amount) over recentTxs
detectedAmountOf(txs) ==
  LET recent == recentAmountTxsOf(txs)
  IN  IF Len(txs) < 2 \/ Len(recent) < 2
      THEN [num |-> IF Len(txs) = 0 THEN 0 ELSE txs[1].amount, den |-> 1]
      ELSE [num |-> SumSeq([i \in 1..Len(recent) |-> Abs(recent[i].amount)]),
            den |-> Len(recent)]

\* override_amount: undefined until the field is edited, then
\* parseFloat(e.target.value), NaN for an emptied field
NoOverride == [set |-> FALSE, nan |-> FALSE, value |-> 0]

OverrideInputs ==
  {[set |-> TRUE, nan |-> TRUE, value |-> 0]}
    \cup {[set |-> TRUE, nan |-> FALSE, value |-> v] : v \in {0, 50}}

\* JavaScript truthiness of p.override_amount
Truthy(override) == override.set /\ ~override.nan /\ override.value # 0

\* average_amount: p.override_amount || p.detected_amount
averageAmountOf(p) ==
  IF Truthy(p.override_amount) THEN [num |-> p.override_amount.value, den |-> 1]
  ELSE p.detected_amount

NoPatterns ==
  [transactions |-> <<>>, detected_amount |-> [num |-> 0, den |-> 1],
   override_amount |-> NoOverride]

NoPatternRecords == [saved |-> FALSE, average_amount |-> [num |-> 0, den |-> 1]]

----------------------------------------------------------------------------
(* PatternReviewV2Page: the patterns of a client are reviewed one at a     *)
(* time.  patternsV2 is the patterns state, a list of PatternReview        *)
(* records; recent_transactions tells whether loadTransactionsForPattern   *)
(* has filled the record's recent transactions, reviewed_at whether the    *)
(* review time is set.  currentIndex counts from 0, as in the page.        *)

\* most patterns of the client
MaxPatterns == 2

\* total_transaction_value below and above the $1k threshold
TransactionValues == {500, 2000}
Threshold == 1000

PatternReview(vg, status, value) ==
  [vendor_group |-> vg, status |-> status, pattern_type |-> "weekly",
   total_transaction_value |-> value, reviewed_at |-> status = "reviewed",
   recent_transactions |-> FALSE]

\* the rows of pattern_reviews a client may have, in the order the select
\* returns them: vendor_group is unique per client
StoredReviews ==
  UNION {{[i \in 1..n |-> PatternReview(i, st[i], val[i])] :
            st \in [1..n -> {"pending", "reviewed"}],
            val \in [1..n -> TransactionValues]} : n \in 1..MaxPatterns}

\* the records a fresh analysis makes: all pending, sorted by total value
\* descending
FreshRecords ==
  UNION {{[i \in 1..n |-> PatternReview(i, "pending", val[i])] :
            val \in {v \in [1..n -> TransactionValues] :
                       \A i \in 1..(n - 1) : v[i] >= v[i + 1]}} : n \in 0..MaxPatterns}

\* editedPattern = {}
NoEdits == [set |-> FALSE, pattern_type |-> "none"]

\* no handleAction waiting for its update; answer tells how the update of
\* the last one came back
NoAction ==
  [action |-> "none", vendor_group |-> 0, status |-> "none", reviewed_at |-> FALSE,
   pattern_type |-> "none", editMode |-> FALSE, next_index |-> 0 - 1,
   next_vendor_group |-> 0, answer |-> "none"]

\* showAll ? patterns : patterns.filter(p => p.total_transaction_value >= 1000)
filteredPatternsOf(ps, all) ==
  IF all THEN ps ELSE SelectSeq(ps, LAMBDA p : p.total_transaction_value >= Threshold)

\* findIndex over positions 0 .. length - 1; -1 when nothing is found
FindIndex(ps, Test(_, _)) ==
  LET found == {i \in 1..Len(ps) : Test(ps[i], i - 1)}
  IN  IF found = {} THEN 0 - 1
      ELSE (CHOOSE i \in found : \A j \in found : i <= j) - 1

\* loadTransactionsForPattern: setPatterns(prev => prev.map(...))
loadTransactionsForPattern(ps, vendorGroup) ==
  [i \in 1..Len(ps) |->
     IF ps[i].vendor_group = vendorGroup
     THEN [ps[i] EXCEPT !.recent_transactions = TRUE] ELSE ps[i]]

----------------------------------------------------------------------------
(* POST /api/save-transactions: the rows of the request are inserted into  *)
(* the transactions table batch by batch.  A row is known by its place in  *)
(* the request (1 is the first), txTable is what the inserts of the        *)
(* request have left in the table, in the order of their insertion.  One   *)
(* insert is one statement: its batch is stored whole or not at all.       *)

\* const batchSize = 100
batchSize == 100
\* longest transactions array of a request: two full batches and a half
MaxTransactions == 250

\* a response without an inserted field
NoCount == 0 - 1
NoSaveRequest == [transactions |-> <<>>, isArray |-> FALSE, clientName |-> FALSE]
NoSaveResponse == [status |-> 0, success |-> FALSE, error |-> "none",
                   inserted |-> NoCount]

\* request bodies: an array of rows with a client name, transactions that
\* is no array, or no client name
SaveRequests ==
  {[transactions |-> [k \in 1..n |-> k], isArray |-> TRUE, clientName |-> TRUE] :
     n \in 0..MaxTransactions}
    \cup {[transactions |-> <<>>, isArray |-> FALSE, clientName |-> TRUE],
          [transactions |-> <<1>>, isArray |-> TRUE, clientName |-> FALSE]}

\* Array.prototype.slice with an end that runs past the last element
sliceInclusive(s, start, end) ==
  SubSeq(s, start + 1, IF end + 1 < Len(s) THEN end + 1 ELSE Len(s))

\* Array.prototype.slice(start, end) for 0 <= start <= end: the elements at
\* the 0-based places start .. end - 1, as far as there are any
slice(s, start, end) ==
  SubSeq(s, start + 1, IF end < Len(s) THEN end ELSE Len(s))

----------------------------------------------------------------------------
(* The vendor-mapping page.  vendorsTable is the rows of the vendors table *)
(* of the client: id is the serial key, so two rows may carry the same     *)
(* vendor_name (the table has no unique constraint on it).  vendors is the *)
(* page's list, kept as a function from vendor_name to display_name, and   *)
(* mappingChanges the display names typed since.                           *)

VendorNames == {"ACME", "AMAZON MKT"}
DisplayNames == {"Supplies", "Amazon Revenue"}
\* mappingChanges[vendor_name] === undefined
Undefined == "undefined"

\* the serial id of a vendor's row: rows stored before the page was opened
\* come first, rows of a later insert after them
VendorIndex(v) == IF v = "ACME" THEN 1 ELSE 2
VendorRow(id, v, d) == [id |-> id, vendor_name |-> v, display_name |-> d]

\* the mappings stored for the client before the page is opened: at most
\* one row per vendor
StoredMappings ==
  {{VendorRow(VendorIndex(v), v, f[v]) : v \in DOMAIN f} :
     f \in UNION {[S -> DisplayNames] : S \in SUBSET VendorNames}}

\* autoMapRules.find(r => r.pattern.test(vendor_name)): /^AMAZON/i is the
\* rule that fits a vendor name of the model
autoMapRule(v) == IF v = "AMAZON MKT" THEN "Amazon Revenue" ELSE Undefined

\* the (vendor_name, display_name) pairs of a set of rows
MappingsOf(rows) ==
  {[vendor_name |-> r.vendor_name, display_name |-> r.display_name] : r \in rows}

NoVendors == [v \in {} |-> Undefined]
NoChanges == [v \in VendorNames |-> Undefined]

----------------------------------------------------------------------------
(* The forecast spreadsheet.  ForecastSpreadsheet builds its rows from the  *)
(* dashboard response: forecast_data holds one cell per period and         *)
(* (category, subcategory), cash_balances one balance per period; either   *)
(* may be missing.  Every vendor group has its own subcategory, as the     *)
(* default groups of the schema have.                                      *)

\* periods, in the order of the periods array
SheetPeriods == 1..3

vendorGroups == <<"core_capital", "operating_revenue", "cc", "distributions">>

CategoryOf(vg) ==
  IF vg \in {"core_capital", "operating_revenue"} THEN "revenue"
  ELSE IF vg = "cc" THEN "operating"
  ELSE "financing"

\* vendorGroups.filter(vg => vg.category === category)
GroupsOf(category) == SelectSeq(vendorGroups, LAMBDA vg : CategoryOf(vg) = category)

MissingCell == [present |-> FALSE, forecasted |-> 0, actual |-> 0, is_actual |-> FALSE]

ForecastCell(amount) ==
  [present |-> TRUE, forecasted |-> amount, actual |-> 0, is_actual |-> FALSE]

ActualCell(forecasted, actual) ==
  [present |-> TRUE, forecasted |-> forecasted, actual |-> actual, is_actual |-> TRUE]

\* the cells a dashboard response may carry for a vendor group
CellOptions(vg) ==
  IF vg = "core_capital" THEN {MissingCell, ForecastCell(3), ActualCell(3, 5)}
  ELSE IF vg = "operating_revenue" THEN {MissingCell, ForecastCell(4)}
  ELSE IF vg = "cc" THEN {MissingCell, ActualCell(-3, -5)}
  ELSE {MissingCell, ForecastCell(-2)}

MissingBalance == [present |-> FALSE, beginning_balance |-> 0]

BalanceOptions == {MissingBalance, [present |-> TRUE, beginning_balance |-> 10]}

PeriodCells ==
  {f \in [Range(vendorGroups) -> UNION {CellOptions(vg) : vg \in Range(vendorGroups)}] :
     \A vg \in Range(vendorGroups) : f[vg] \in CellOptions(vg)}

\* the data GET /api/forecast/dashboard may answer with
DashboardResponses ==
  [forecast_data : [SheetPeriods -> PeriodCells],
   cash_balances : [SheetPeriods -> BalanceOptions]]

\* CellValue that shows the forecast of a reconciled cell
CellValueForecastOnly(data) == IF data.present THEN data.forecasted ELSE 0

\* data?.is_actual ? data.actual : data?.forecasted || 0
CellValue(data) ==
  IF data.present /\ data.is_actual THEN data.actual
  ELSE IF data.present THEN data.forecasted
  ELSE 0

\* let total = 0; groups.forEach(vg => total += ...)
CategoryTotal(forecast_data, period, category) ==
  LET groups == GroupsOf(category)
  IN  SumSeq([i \in 1..Len(groups) |-> CellValue(forecast_data[period][groups[i]])])

\* balance?.beginning_balance || 0
cashBalanceRow(dd) ==
  [period \in SheetPeriods |->
     IF dd.cash_balances[period].present
     THEN dd.cash_balances[period].beginning_balance ELSE 0]

totalRevenueRow(dd) ==
  [period \in SheetPeriods |-> CategoryTotal(dd.forecast_data, period, "revenue")]

totalOutflowsRow(dd) ==
  [period \in SheetPeriods |-> CategoryTotal(dd.forecast_data, period, "operating")]

\* revenue + outflows (outflows are negative)
netOperatingRow(dd) ==
  [period \in SheetPeriods |-> totalRevenueRow(dd)[period] + totalOutflowsRow(dd)[period]]

netFinancingRow(dd) ==
  [period \in SheetPeriods |-> CategoryTotal(dd.forecast_data, period, "financing")]

\* Ending Cash: the first period starts from its Beginning Cash, every later
\* one from the Ending Cash of the period before
RECURSIVE endingCash(_, _)
endingCash(dd, index) ==
  LET beginningCash == IF index = 1 THEN cashBalanceRow(dd)[1]
                       ELSE endingCash(dd, index - 1)
  IN  beginningCash + netOperatingRow(dd)[index] + netFinancingRow(dd)[index]

endingCashRow(dd) == [period \in SheetPeriods |-> endingCash(dd, period)]

\* the rows of the grid (headers and spacers left out)
rowDataOf(dd) ==
  [beginning_cash |-> cashBalanceRow(dd),
   vendor_group |-> [period \in SheetPeriods |->
                      [vg \in Range(vendorGroups) |-> CellValue(dd.forecast_data[period][vg])]],
   total_revenue |-> totalRevenueRow(dd),
   total_outflows |-> totalOutflowsRow(dd),
   net_operating_cf |-> netOperatingRow(dd),
   net_financing_cf |-> netFinancingRow(dd),
   ending_cash |-> endingCashRow(dd)]

\* DemoForecastSpreadsheet: the twelve weeks of mockForecastData
mockForecastData ==
  <<[core_capital |-> 250000, operating_revenue |-> 150000, cc |-> -46655, ops |-> -34056, ga |-> -3984, payroll |-> -33208, distributions |-> -200000],
   [core_capital |-> 300000, operating_revenue |-> 171000, cc |-> 0, ops |-> -21431, ga |-> -3737, payroll |-> -33208, distributions |-> -2042],
   [core_capital |-> 300000, operating_revenue |-> 177000, cc |-> -46655, ops |-> -23314, ga |-> -976, payroll |-> -22140, distributions |-> -2042],
   [core_capital |-> 300000, operating_revenue |-> 182500, cc |-> -46655, ops |-> -25000, ga |-> -1200, payroll |-> -33208, distributions |-> -2042],
   [core_capital |-> 300000, operating_revenue |-> 185000, cc |-> 0, ops |-> -21431, ga |-> -3737, payroll |-> -33208, distributions |-> -2042],
   [core_capital |-> 300000, operating_revenue |-> 188000, cc |-> -46655, ops |-> -23314, ga |-> -976, payroll |-> -22140, distributions |-> -2042],
   [core_capital |-> 300000, operating_revenue |-> 190000, cc |-> -46655, ops |-> -25000, ga |-> -1200, payroll |-> -33208, distributions |-> -2042],
   [core_capital |-> 300000, operating_revenue |-> 192500, cc |-> 0, ops |-> -21431, ga |-> -3737, payroll |-> -33208, distributions |-> -2042],
   [core_capital |-> 300000, operating_revenue |-> 195000, cc |-> -46655, ops |-> -23314, ga |-> -976, payroll |-> -22140, distributions |-> -2042],
   [core_capital |-> 300000, operating_revenue |-> 197500, cc |-> -46655, ops |-> -25000, ga |-> -1200, payroll |-> -33208, distributions |-> -2042],
   [core_capital |-> 300000, operating_revenue |-> 200000, cc |-> 0, ops |-> -21431, ga |-> -3737, payroll |-> -33208, distributions |-> -2042],
   [core_capital |-> 300000, operating_revenue |-> 202500, cc |-> -46655, ops |-> -23314, ga |-> -976, payroll |-> -22140, distributions |-> -2042]>>

mockPeriods == 1..Len(mockForecastData)

DemoFields == {"core_capital", "operating_revenue", "cc", "ops", "ga", "payroll",
               "distributions"}

\* runningCash when the forEach reaches period index
RECURSIVE runningCash(_)
runningCash(index) ==
  IF index = 1 THEN 476121
  ELSE LET data == mockForecastData[index - 1]
           revenue == data.core_capital + data.operating_revenue
           expenses == data.cc + data.ops + data.ga + data.payroll
           financing == data.distributions
       IN  runningCash(index - 1) + revenue + expenses + financing

beginningCashRow == [period \in mockPeriods |-> runningCash(period)]

demoTotalRevenueRow ==
  [period \in mockPeriods |->
     mockForecastData[period].core_capital + mockForecastData[period].operating_revenue]

demoTotalOutflowsRow ==
  [period \in mockPeriods |->
     mockForecastData[period].cc + mockForecastData[period].ops
       + mockForecastData[period].ga + mockForecastData[period].payroll]

demoNetOperatingRow ==
  [period \in mockPeriods |-> demoTotalRevenueRow[period] + demoTotalOutflowsRow[period]]

demoNetFinancingRow == [period \in mockPeriods |-> mockForecastData[period].distributions]

\* beginningCash + netOperating + netFinancing
demoEndingCashRow ==
  [period \in mockPeriods |->
     beginningCashRow[period] + demoNetOperatingRow[period] + demoNetFinancingRow[period]]

demoRowData ==
  [beginning_cash |-> beginningCashRow,
   vendor_group |-> [period \in mockPeriods |->
                      [f \in DemoFields |-> mockForecastData[period][f]]],
   total_revenue |-> demoTotalRevenueRow,
   total_outflows |-> demoTotalOutflowsRow,
   net_operating_cf |-> demoNetOperatingRow,
   net_financing_cf |-> demoNetFinancingRow,
   ending_cash |-> demoEndingCashRow]

\* before the first response: no dashboard data, rowData is []
NoDashboard ==
  [forecast_data |-> [period \in SheetPeriods |-> [vg \in Range(vendorGroups) |-> MissingCell]],
   cash_balances |-> [period \in SheetPeriods |-> MissingBalance]]

NoRows ==
  [beginning_cash |-> <<>>, vendor_group |-> <<>>, total_revenue |-> <<>>,
   total_outflows |-> <<>>, net_operating_cf |-> <<>>, net_financing_cf |-> <<>>,
   ending_cash |-> <<>>]

----------------------------------------------------------------------------
(* Forecast records of one client.  The table is a set of rows over two    *)
(* vendor groups and two forecast dates.  The engine behind POST /api/forecast/generate and POST     *)
(* /api/forecast/reconcile is modelled from sections 4.4 and 4.5 of the    *)
(* specification; the rows and their defaults come from the schema.        *)

\* most actual transactions in one reconcile upload
MaxActuals == 2
\* most operations in one behaviour
MaxOps == 2

VendorGroups == {"g1", "g2"}
Dates == {1, 2}
ForecastAmounts == {2, 4}
ActualAmounts == {2}

\* NewForecastRow with is_locked defaulting to true
NewForecastRowLocked(vg, d, amount) ==
  [vendor_group |-> vg, forecast_date |-> d, forecasted_amount |-> amount,
   is_actual |-> FALSE, actual_amount |-> 0, variance_amount |-> 0,
   is_locked |-> TRUE]

\* forecast_records: a freshly inserted row (column defaults of the schema)
NewForecastRow(vg, d, amount) ==
  [vendor_group |-> vg, forecast_date |-> d, forecasted_amount |-> amount,
   is_actual |-> FALSE, actual_amount |-> 0, variance_amount |-> 0,
   is_locked |-> FALSE]

\* VarianceOf with the operands swapped
VarianceOfSwapped(actual, forecasted) == forecasted - actual

\* variance_amount: actual - forecasted
VarianceOf(actual, forecasted) == actual - forecasted

RowsAt(rows, vg, d) == {r \in rows : r.vendor_group = vg /\ r.forecast_date = d}

LockedAt(rows, vg, d) == \E r \in RowsAt(rows, vg, d) : r.is_locked

\* GeneratedDates that does not look at the lock
GeneratedDatesIgnoringLock(rows, vg, dates) == dates

\* matching dates a generate call writes: those without a locked row
GeneratedDates(rows, vg, dates) == {d \in dates : ~LockedAt(rows, vg, d)}

\* dates of a generate call that hold an unlocked row, which is replaced
ReplacedDates(rows, vg, dates) ==
  {d \in GeneratedDates(rows, vg, dates) : RowsAt(rows, vg, d) # {}}

\* the detected patterns generate is given: frequency and, for weekly, the
\* weekday of the timing descriptor.  The dates of the model are consecutive
\* days of one week, so the weekday of date d is d
IrregularPattern == [frequency |-> "irregular", day |-> 0]
Patterns ==
  {IrregularPattern, [frequency |-> "daily", day |-> 0]}
    \cup {[frequency |-> "weekly", day |-> d] : d \in Dates}
\* horizons, in days
Horizons == {1, 2}

\* the calendar dates of the horizon
HorizonDates(start_date, horizon) ==
  {d \in Dates : start_date <= d /\ d < start_date + horizon}

\* MatchingDates with an irregular pattern enumerated like a daily one
MatchingDatesIrregularAsDaily(pattern, start_date, horizon) ==
  IF pattern.frequency = "weekly"
    THEN {d \in HorizonDates(start_date, horizon) : d = pattern.day}
  ELSE HorizonDates(start_date, horizon)

\* the dates of the horizon that match the timing descriptor: every date for
\* daily-all, the dates of weekday X for weekly on X, none for irregular
MatchingDates(pattern, start_date, horizon) ==
  IF pattern.frequency = "irregular" THEN {}
  ELSE IF pattern.frequency = "weekly"
    THEN {d \in HorizonDates(start_date, horizon) : d = pattern.day}
  ELSE HorizonDates(start_date, horizon)

\* GenerateRows that inserts without removing the row it replaces
GenerateRowsInsertOnly(rows, vg, dates, amount) ==
  rows \cup {NewForecastRow(vg, d, amount) : d \in GeneratedDates(rows, vg, dates)}

\* Forecast Record Generator: one row per matching date, locked dates skipped,
\* an unlocked row of the same (vendor_group, date) replaced
GenerateRows(rows, vg, dates, amount) ==
  LET written == GeneratedDates(rows, vg, dates)
  IN  {r \in rows : ~(r.vendor_group = vg /\ r.forecast_date \in written)}
        \cup {NewForecastRow(vg, d, amount) : d \in written}

\* step 1 of reconcile: the actuals of one (vendor_group, date), summed
ActualSum(actuals, vg, d) ==
  SumSeq([i \in 1..Len(actuals) |->
            IF actuals[i].vendor_group = vg /\ actuals[i].date = d
            THEN actuals[i].amount ELSE 0])

\* the (vendor_group, date) keys of the actuals that fall in the window
ActualKeys(ws, we, actuals) ==
  {<<t.vendor_group, t.date>> : t \in {u \in Range(actuals) : ws <= u.date /\ u.date <= we}}

ReconciledRow(r, actual) ==
  [r EXCEPT !.is_actual = TRUE, !.actual_amount = actual,
            !.variance_amount = VarianceOf(actual, r.forecasted_amount),
            !.is_locked = TRUE]

\* RowsToReconcile that also takes locked rows
RowsToReconcileIgnoringLock(rows, ws, we, actuals) ==
  {r \in rows : <<r.vendor_group, r.forecast_date>> \in ActualKeys(ws, we, actuals)}

\* rows step 2 of reconcile updates: unlocked, in the window, with actuals
RowsToReconcile(rows, ws, we, actuals) ==
  {r \in rows : /\ ~r.is_locked
                /\ <<r.vendor_group, r.forecast_date>> \in ActualKeys(ws, we, actuals)}

\* ReconcileRows that also takes locked rows and adds to their actual_amount
ReconcileRowsAccumulating(rows, ws, we, actuals) ==
  LET hit == {r \in rows : <<r.vendor_group, r.forecast_date>> \in ActualKeys(ws, we, actuals)}
  IN  (rows \ hit)
        \cup {ReconciledRow(r, r.actual_amount
                                 + ActualSum(actuals, r.vendor_group, r.forecast_date)) : r \in hit}

ReconcileRows(rows, ws, we, actuals) ==
  LET hit == RowsToReconcile(rows, ws, we, actuals)
  IN  (rows \ hit)
        \cup {ReconciledRow(r, ActualSum(actuals, r.vendor_group, r.forecast_date)) : r \in hit}

\* import statistics: the keys whose row this reconcile updates
UpdatedKeys(rows, ws, we, actuals) ==
  {<<r.vendor_group, r.forecast_date>> : r \in RowsToReconcile(rows, ws, we, actuals)}

\* the keys whose row is locked already: the row is left as it is
LockedKeys(rows, ws, we, actuals) ==
  {k \in ActualKeys(ws, we, actuals) : LockedAt(rows, k[1], k[2])}

\* UnmatchedActuals that reports nothing
UnmatchedActualsDropped(rows, ws, we, actuals) == {}

\* actual activity with no forecast record at all
UnmatchedActuals(rows, ws, we, actuals) ==
  {k \in ActualKeys(ws, we, actuals) : RowsAt(rows, k[1], k[2]) = {}}

\* the amount a record stands for: the actual where locked, the forecast otherwise
RecordAmount(r) == IF r.is_locked THEN r.actual_amount ELSE r.forecasted_amount

\* net cash flow of the week of date d: the amounts of its records
WeekFlow(rows, d) ==
  LET groups == <<"g1", "g2">>
  IN  SumSeq([i \in 1..Len(groups) |->
                IF RowsAt(rows, groups[i], d) = {} THEN 0
                ELSE RecordAmount(CHOOSE r \in RowsAt(rows, groups[i], d) : TRUE)])

\* IsFrozen that freezes no week
IsFrozenNever(periods, d) == FALSE

\* the balance of a locked week is frozen
IsFrozen(periods, d) == periods[d].is_locked

\* CashBalance of week d after recomputation in chronological order: a frozen
\* week keeps its balance, any other begins with the ending balance of the
\* week before (the first with the known starting balance)
RECURSIVE Recomputed(_, _, _, _)
Recomputed(cash, periods, rows, d) ==
  IF IsFrozen(periods, d) THEN cash[d]
  ELSE LET beginning == IF d = 1 THEN cash[d].beginning_balance
                        ELSE Recomputed(cash, periods, rows, d - 1).ending_balance
       IN  [beginning_balance |-> beginning,
            ending_balance |-> beginning + WeekFlow(rows, d)]

RecomputeCashBalances(cash, periods, rows) ==
  [d \in Dates |-> Recomputed(cash, periods, rows, d)]

\* reconcile locks the weeks of its window
LockPeriods(periods, ws, we) ==
  [d \in Dates |-> IF ws <= d /\ d <= we THEN [is_locked |-> TRUE] ELSE periods[d]]

\* every week unlocked, every balance the known starting balance
NoBalances == [d \in Dates |-> [beginning_balance |-> 10, ending_balance |-> 10]]

NoPeriods == [d \in Dates |-> [is_locked |-> FALSE]]

ActualTx == [vendor_group : VendorGroups, date : Dates, amount : ActualAmounts]

\* uploads list their transactions by date, then vendor group, then amount
TxRank(t) == 100 * t.date + 10 * (IF t.vendor_group = "g1" THEN 1 ELSE 2) + t.amount

\* the CSV uploads of at most MaxActuals transactions
Uploads ==
  {s \in SeqsUpTo(ActualTx, MaxActuals) :
     \A i \in 1..(Len(s) - 1) : TxRank(s[i]) <= TxRank(s[i + 1])}

\* two ReconciliationPanels (two browser sessions) of the same client
Panels == {"p1", "p2"}

IdlePanel ==
  [pc |-> "idle", file |-> <<>>, isUploading |-> FALSE, uploadStatus |-> "none",
   response |-> "none"]

NoPanels == [p \in Panels |-> IdlePanel]

NoSnapshots == [p \in Panels |-> {}]

\* the week both panels have selected
SelectedWeek == [week_start |-> 1, week_end |-> 2]

\* the forecast of that week: a row for every vendor group and date
GeneratedTable == GenerateRows(GenerateRows({}, "g1", Dates, 2), "g2", Dates, 4)

\* the tables a behaviour starts from: no forecast yet, the forecast of one
\* vendor group, the forecast of both
InitialTables == {{}, GenerateRows({}, "g1", Dates, 2), GeneratedTable}

NoOp ==
  [name |-> "none", vendor_group |-> "", pattern |-> "none",
   dates |-> {}, amount |-> 0, generated |-> {},
   replaced |-> {}, updated |-> {}, locked |-> {},
   week_start |-> 0, week_end |-> 0, actuals |-> <<>>, unmatched |-> {},
   rerun |-> FALSE, roundtrip |-> FALSE]

\* the upload repeats the previous reconcile
IsRerun(last, ws, we, actuals) ==
  /\ last.name = "reconcile"
  /\ last.week_start = ws /\ last.week_end = we /\ last.actuals = actuals

\* the upload follows a generate and carries, for every row that generate
\* wrote, actuals of the same vendor group and date that sum to its forecast
IsRoundTrip(last, ws, we, actuals) ==
  /\ last.name = "generate"
  /\ last.generated # {}
  /\ \A d \in last.generated :
       /\ ws <= d /\ d <= we
       /\ ActualSum(actuals, last.vendor_group, d) = last.amount

\* the forecast records of a client, none reconciled yet; the other pages
\* not in use
ForecastInit ==
  /\ records \in InitialTables
  /\ op = NoOp
  /\ nops = 0
  /\ cash_balances = RecomputeCashBalances(NoBalances, NoPeriods, records)
  /\ forecast_periods = NoPeriods
  /\ transactions = <<>>
  /\ nowIsMidnight = FALSE
  /\ pc = "loaded"
  /\ result = NoResult
  /\ dashboardRes = NoDashboard
  /\ dashboardData = NoDashboard
  /\ rowData = NoRows
  /\ sheet = "loading"
  /\ panel = NoPanels
  /\ week_lock = "none"
  /\ snapshot = NoSnapshots
  /\ patterns = NoPatterns
  /\ patternRecords = NoPatternRecords
  /\ reviewPc = "loading"
  /\ groupedByDisplay = <<>>
  /\ patternAnalysis = <<>>
  /\ batchPc = "idle"
  /\ editing = [vendor_group |-> "none", period |-> 0]
  /\ cellUpdates = {}
  /\ patternsV2 = <<>>
  /\ currentIndex = 0
  /\ showAll = FALSE
  /\ editMode = FALSE
  /\ editedPattern = NoEdits
  /\ saving = FALSE
  /\ inflight = NoAction
  /\ v2pc = "idle"
  /\ saveRequest = NoSaveRequest
  /\ savePc = "idle"
  /\ saveI = 0
  /\ totalInserted = 0
  /\ txTable = <<>>
  /\ saveResponse = NoSaveResponse
  /\ vendorsTable = {}
  /\ vendors = NoVendors
  /\ mappingChanges = NoChanges
  /\ mapSaving = FALSE
  /\ mapPc = "idle"
  /\ mapAlert = "none"
  /\ storedBefore = {}
  /\ vendorRecords = {}
  /\ isUploading = FALSE
  /\ uploadStatus = "null"
  /\ selectedWeek = ""
  /\ requests = {}
  /\ attempts = 0
  /\ completed = 0

\* generateForecasts: POST /api/forecast/generate/{clientId}, one vendor group
Generate(vg, pattern, amount, horizon, start_date) ==
  /\ nops < MaxOps
  /\ LET dates == MatchingDates(pattern, start_date, horizon)
     IN  /\ records' = GenerateRows(records, vg, dates, amount)
         /\ op' = [NoOp EXCEPT !.name = "generate", !.vendor_group = vg,
                               !.pattern = pattern.frequency,
                               !.dates = dates,
                               !.amount = amount,
                               !.generated = GeneratedDates(records, vg, dates),
                               !.replaced = ReplacedDates(records, vg, dates)]
  /\ nops' = nops + 1
  /\ cash_balances' = RecomputeCashBalances(cash_balances, forecast_periods, records')
  /\ UNCHANGED forecast_periods

\* ReconciliationPanel.onDrop: POST /api/forecast/reconcile
Reconcile(ws, we, actuals) ==
  /\ nops < MaxOps
  /\ records' = ReconcileRows(records, ws, we, actuals)
  /\ op' = [NoOp EXCEPT !.name = "reconcile", !.week_start = ws, !.week_end = we,
                        !.actuals = actuals,
                        !.unmatched = UnmatchedActuals(records, ws, we, actuals),
                        !.updated = UpdatedKeys(records, ws, we, actuals),
                        !.locked = LockedKeys(records, ws, we, actuals),
                        !.rerun = IsRerun(op, ws, we, actuals),
                        !.roundtrip = IsRoundTrip(op, ws, we, actuals)]
  /\ nops' = nops + 1
  /\ cash_balances' = RecomputeCashBalances(cash_balances, forecast_periods, records')
  /\ forecast_periods' = LockPeriods(forecast_periods, ws, we)

ForecastNext ==
  \/ \E vg \in VendorGroups, pattern \in Patterns, amount \in ForecastAmounts,
        horizon \in Horizons, start_date \in Dates :
       Generate(vg, pattern, amount, horizon, start_date) /\ UNCHANGED <<patternVars, sheetVars, panelVars, reviewVars, batchVars, editVars, v2Vars, saveVars, mapVars, dropVars>>
  \/ \E ws \in Dates, we \in Dates, actuals \in Uploads :
       ws <= we /\ Reconcile(ws, we, actuals) /\ UNCHANGED <<patternVars, sheetVars, panelVars, reviewVars, batchVars, editVars, v2Vars, saveVars, mapVars, dropVars>>

----------------------------------------------------------------------------
(* The pattern-review pages: load the transactions, analyze them *)

InsertAt(s, k, x) == SubSeq(s, 1, k) \o <<x>> \o SubSeq(s, k + 1, Len(s))

\* every list made by putting one more unparsable date into a list of S
WithInvalidDate(S) ==
  UNION {{InsertAt(s, k, InvalidDate) : k \in 0..Len(s)} : s \in S}

\* lists of up to three dated transactions with one or two unparsable dates
\* among them
MalformedLists ==
  LET dated == {DatesFrom(last, Regular(d, n)) :
                  last \in LastOffsets, d \in RegularGaps, n \in 0..2} \cup {<<>>}
      once == WithInvalidDate(dated)
  IN  once \cup WithInvalidDate(once)

PatternInit ==
  /\ transactions \in {DatesFrom(last, gaps) : last \in LastOffsets, gaps \in GapLists}
                        \cup {<<>>} \cup MalformedLists
  /\ nowIsMidnight \in BOOLEAN
  /\ pc = "loaded"
  /\ result = NoResult
  /\ records = {}
  /\ op = NoOp
  /\ nops = 0
  /\ cash_balances = NoBalances
  /\ forecast_periods = NoPeriods
  /\ dashboardRes = NoDashboard
  /\ dashboardData = NoDashboard
  /\ rowData = NoRows
  /\ sheet = "loading"
  /\ panel = NoPanels
  /\ week_lock = "none"
  /\ snapshot = NoSnapshots
  /\ patterns = NoPatterns
  /\ patternRecords = NoPatternRecords
  /\ reviewPc = "loading"
  /\ groupedByDisplay = <<>>
  /\ patternAnalysis = <<>>
  /\ batchPc = "idle"
  /\ editing = [vendor_group |-> "none", period |-> 0]
  /\ cellUpdates = {}
  /\ patternsV2 = <<>>
  /\ currentIndex = 0
  /\ showAll = FALSE
  /\ editMode = FALSE
  /\ editedPattern = NoEdits
  /\ saving = FALSE
  /\ inflight = NoAction
  /\ v2pc = "idle"
  /\ saveRequest = NoSaveRequest
  /\ savePc = "idle"
  /\ saveI = 0
  /\ totalInserted = 0
  /\ txTable = <<>>
  /\ saveResponse = NoSaveResponse
  /\ vendorsTable = {}
  /\ vendors = NoVendors
  /\ mappingChanges = NoChanges
  /\ mapSaving = FALSE
  /\ mapPc = "idle"
  /\ mapAlert = "none"
  /\ storedBefore = {}
  /\ vendorRecords = {}
  /\ isUploading = FALSE
  /\ uploadStatus = "null"
  /\ selectedWeek = ""
  /\ requests = {}
  /\ attempts = 0
  /\ completed = 0

\* loadPatterns of pattern-review/page.tsx
LoadPatterns ==
  /\ pc = "loaded"
  /\ result' = analyzePattern(transactions, nowIsMidnight)
  /\ pc' = "done"
  /\ UNCHANGED <<transactions, nowIsMidnight>>

\* analyzeAndSavePatterns of pattern-review-v2/page.tsx
AnalyzeAndSavePatterns ==
  /\ pc = "loaded"
  /\ result' = analyzePatternV2(transactions, nowIsMidnight)
  /\ pc' = "doneV2"
  /\ UNCHANGED <<transactions, nowIsMidnight>>

PatternNext ==
  \/ LoadPatterns /\ UNCHANGED <<forecastVars, sheetVars, panelVars, reviewVars, batchVars, editVars, v2Vars, saveVars, mapVars, dropVars>>
  \/ AnalyzeAndSavePatterns /\ UNCHANGED <<forecastVars, sheetVars, panelVars, reviewVars, batchVars, editVars, v2Vars, saveVars, mapVars, dropVars>>

PatternSpec == PatternInit /\ [][PatternNext]_vars

ForecastSpec == ForecastInit /\ [][ForecastNext]_vars

\* the pattern-review page of a client with one vendor group, loading
ReviewInit ==
  /\ patterns \in {[NoPatterns EXCEPT !.transactions = txs] : txs \in AmountHistories}
  /\ patternRecords = NoPatternRecords
  /\ reviewPc = "loading"
  /\ transactions = <<>>
  /\ nowIsMidnight = FALSE
  /\ pc = "loaded"
  /\ result = NoResult
  /\ records = {}
  /\ op = NoOp
  /\ nops = 0
  /\ cash_balances = NoBalances
  /\ forecast_periods = NoPeriods
  /\ dashboardRes = NoDashboard
  /\ dashboardData = NoDashboard
  /\ rowData = NoRows
  /\ sheet = "loading"
  /\ panel = NoPanels
  /\ week_lock = "none"
  /\ snapshot = NoSnapshots
  /\ groupedByDisplay = <<>>
  /\ patternAnalysis = <<>>
  /\ batchPc = "idle"
  /\ editing = [vendor_group |-> "none", period |-> 0]
  /\ cellUpdates = {}
  /\ patternsV2 = <<>>
  /\ currentIndex = 0
  /\ showAll = FALSE
  /\ editMode = FALSE
  /\ editedPattern = NoEdits
  /\ saving = FALSE
  /\ inflight = NoAction
  /\ v2pc = "idle"
  /\ saveRequest = NoSaveRequest
  /\ savePc = "idle"
  /\ saveI = 0
  /\ totalInserted = 0
  /\ txTable = <<>>
  /\ saveResponse = NoSaveResponse
  /\ vendorsTable = {}
  /\ vendors = NoVendors
  /\ mappingChanges = NoChanges
  /\ mapSaving = FALSE
  /\ mapPc = "idle"
  /\ mapAlert = "none"
  /\ storedBefore = {}
  /\ vendorRecords = {}
  /\ isUploading = FALSE
  /\ uploadStatus = "null"
  /\ selectedWeek = ""
  /\ requests = {}
  /\ attempts = 0
  /\ completed = 0

\* loadPatterns: the analysis of the vendor group, its amount
LoadPatternAmounts ==
  /\ reviewPc = "loading"
  /\ patterns' = [patterns EXCEPT !.detected_amount = detectedAmountOf(patterns.transactions)]
  /\ reviewPc' = "review"
  /\ UNCHANGED patternRecords

\* handlePatternChange(vendorName, 'amount', parseFloat(e.target.value))
handlePatternChange(value) ==
  /\ reviewPc = "review"
  /\ patterns' = [patterns EXCEPT !.override_amount = value]
  /\ UNCHANGED <<patternRecords, reviewPc>>

savePatterns ==
  /\ reviewPc = "review"
  /\ patternRecords' = [saved |-> TRUE, average_amount |-> averageAmountOf(patterns)]
  /\ reviewPc' = "saved"
  /\ UNCHANGED patterns

ReviewNext ==
  \/ LoadPatternAmounts
       /\ UNCHANGED <<patternVars, forecastVars, sheetVars, panelVars, batchVars, editVars, v2Vars, saveVars, mapVars, dropVars>>
  \/ \E value \in OverrideInputs :
       handlePatternChange(value)
         /\ UNCHANGED <<patternVars, forecastVars, sheetVars, panelVars, batchVars, editVars, v2Vars, saveVars, mapVars, dropVars>>
  \/ savePatterns /\ UNCHANGED <<patternVars, forecastVars, sheetVars, panelVars, batchVars, editVars, v2Vars, saveVars, mapVars, dropVars>>

ReviewSpec == ReviewInit /\ [][ReviewNext]_vars

\* two panels idle, the forecast of the selected week generated
PanelInit ==
  /\ panel = NoPanels
  /\ week_lock = "none"
  /\ snapshot = NoSnapshots
  /\ patterns = NoPatterns
  /\ patternRecords = NoPatternRecords
  /\ reviewPc = "loading"
  /\ records = GeneratedTable
  /\ cash_balances = RecomputeCashBalances(NoBalances, NoPeriods, GeneratedTable)
  /\ forecast_periods = NoPeriods
  /\ op = NoOp
  /\ nops = 0
  /\ transactions = <<>>
  /\ nowIsMidnight = FALSE
  /\ pc = "loaded"
  /\ result = NoResult
  /\ dashboardRes = NoDashboard
  /\ dashboardData = NoDashboard
  /\ rowData = NoRows
  /\ sheet = "loading"
  /\ groupedByDisplay = <<>>
  /\ patternAnalysis = <<>>
  /\ batchPc = "idle"
  /\ editing = [vendor_group |-> "none", period |-> 0]
  /\ cellUpdates = {}
  /\ patternsV2 = <<>>
  /\ currentIndex = 0
  /\ showAll = FALSE
  /\ editMode = FALSE
  /\ editedPattern = NoEdits
  /\ saving = FALSE
  /\ inflight = NoAction
  /\ v2pc = "idle"
  /\ saveRequest = NoSaveRequest
  /\ savePc = "idle"
  /\ saveI = 0
  /\ totalInserted = 0
  /\ txTable = <<>>
  /\ saveResponse = NoSaveResponse
  /\ vendorsTable = {}
  /\ vendors = NoVendors
  /\ mappingChanges = NoChanges
  /\ mapSaving = FALSE
  /\ mapPc = "idle"
  /\ mapAlert = "none"
  /\ storedBefore = {}
  /\ vendorRecords = {}
  /\ isUploading = FALSE
  /\ uploadStatus = "null"
  /\ selectedWeek = ""
  /\ requests = {}
  /\ attempts = 0
  /\ completed = 0

\* onDrop without a file or a week, or with a file that is not a CSV
OnDropInvalid(p, status) ==
  /\ panel[p].pc = "idle"
  /\ ~panel[p].isUploading
  /\ panel' = [panel EXCEPT ![p].uploadStatus = status]
  /\ UNCHANGED <<week_lock, snapshot, records, cash_balances, forecast_periods>>

\* onDrop up to the axios.post: the request is on its way
OnDropPost(p, file) ==
  /\ panel[p].pc = "idle"
  /\ ~panel[p].isUploading
  /\ panel' = [panel EXCEPT ![p].pc = "posted", ![p].file = file,
                             ![p].isUploading = TRUE,
                             ![p].uploadStatus = "Processing Mercury CSV..."]
  /\ UNCHANGED <<week_lock, snapshot, records, cash_balances, forecast_periods>>

\* POST /api/forecast/reconcile enters the critical section of the week and
\* reads the forecast records
ReconcileBegin(p) ==
  /\ panel[p].pc = "posted"
  /\ week_lock = "none"
  /\ week_lock' = p
  /\ snapshot' = [snapshot EXCEPT ![p] = records]
  /\ panel' = [panel EXCEPT ![p].pc = "running"]
  /\ UNCHANGED <<records, cash_balances, forecast_periods>>

\* the week is being reconciled by another run: ReconciliationConflictError
ReconcileRefuse(p) ==
  /\ panel[p].pc = "posted"
  /\ week_lock # "none"
  /\ panel' = [panel EXCEPT ![p].pc = "responded", ![p].response = "conflict"]
  /\ UNCHANGED <<week_lock, snapshot, records, cash_balances, forecast_periods>>

\* the run writes what it computed from the records it read, and leaves the
\* critical section
ReconcileCommit(p) ==
  /\ panel[p].pc = "running"
  /\ records' = ReconcileRows(snapshot[p], SelectedWeek.week_start,
                              SelectedWeek.week_end, panel[p].file)
  /\ cash_balances' = RecomputeCashBalances(cash_balances, forecast_periods, records')
  /\ forecast_periods' = LockPeriods(forecast_periods, SelectedWeek.week_start,
                                     SelectedWeek.week_end)
  /\ week_lock' = "none"
  /\ panel' = [panel EXCEPT ![p].pc = "responded", ![p].response = "success"]
  /\ UNCHANGED snapshot

\* onDrop after the await: the status of the response, then the finally block
OnDropResponse(p) ==
  /\ panel[p].pc = "responded"
  /\ panel' = [panel EXCEPT
                 ![p].pc = "done",
                 ![p].isUploading = FALSE,
                 ![p].uploadStatus = IF panel[p].response = "success"
                                     THEN "Reconciliation completed successfully!"
                                     ELSE "Reconciliation failed"]
  /\ UNCHANGED <<week_lock, snapshot, records, cash_balances, forecast_periods>>

PanelNext ==
  \/ \E p \in Panels, status \in {"Please select a file and week to reconcile",
                                  "Please upload a CSV file"} :
       OnDropInvalid(p, status) /\ UNCHANGED <<patternVars, sheetVars, reviewVars, op, nops, batchVars, editVars, v2Vars, saveVars, mapVars, dropVars>>
  \/ \E p \in Panels, file \in Uploads :
       OnDropPost(p, file) /\ UNCHANGED <<patternVars, sheetVars, reviewVars, op, nops, batchVars, editVars, v2Vars, saveVars, mapVars, dropVars>>
  \/ \E p \in Panels : ReconcileBegin(p) /\ UNCHANGED <<patternVars, sheetVars, reviewVars, op, nops, batchVars, editVars, v2Vars, saveVars, mapVars, dropVars>>
  \/ \E p \in Panels : ReconcileRefuse(p) /\ UNCHANGED <<patternVars, sheetVars, reviewVars, op, nops, batchVars, editVars, v2Vars, saveVars, mapVars, dropVars>>
  \/ \E p \in Panels : ReconcileCommit(p) /\ UNCHANGED <<patternVars, sheetVars, reviewVars, op, nops, batchVars, editVars, v2Vars, saveVars, mapVars, dropVars>>
  \/ \E p \in Panels : OnDropResponse(p) /\ UNCHANGED <<patternVars, sheetVars, reviewVars, op, nops, batchVars, editVars, v2Vars, saveVars, mapVars, dropVars>>

PanelSpec == PanelInit /\ [][PanelNext]_vars

\* the spreadsheet before its first response (the dashboard data is on the
\* server), the other pages not in use
SheetInit ==
  /\ dashboardRes \in DashboardResponses
  /\ dashboardData = NoDashboard
  /\ rowData = NoRows
  /\ sheet = "loading"
  /\ panel = NoPanels
  /\ week_lock = "none"
  /\ snapshot = NoSnapshots
  /\ patterns = NoPatterns
  /\ patternRecords = NoPatternRecords
  /\ reviewPc = "loading"
  /\ transactions = <<>>
  /\ nowIsMidnight = FALSE
  /\ pc = "loaded"
  /\ result = NoResult
  /\ records = {}
  /\ op = NoOp
  /\ nops = 0
  /\ cash_balances = NoBalances
  /\ forecast_periods = NoPeriods
  /\ groupedByDisplay = <<>>
  /\ patternAnalysis = <<>>
  /\ batchPc = "idle"
  /\ editing = [vendor_group |-> "none", period |-> 0]
  /\ cellUpdates = {}
  /\ patternsV2 = <<>>
  /\ currentIndex = 0
  /\ showAll = FALSE
  /\ editMode = FALSE
  /\ editedPattern = NoEdits
  /\ saving = FALSE
  /\ inflight = NoAction
  /\ v2pc = "idle"
  /\ saveRequest = NoSaveRequest
  /\ savePc = "idle"
  /\ saveI = 0
  /\ totalInserted = 0
  /\ txTable = <<>>
  /\ saveResponse = NoSaveResponse
  /\ vendorsTable = {}
  /\ vendors = NoVendors
  /\ mappingChanges = NoChanges
  /\ mapSaving = FALSE
  /\ mapPc = "idle"
  /\ mapAlert = "none"
  /\ storedBefore = {}
  /\ vendorRecords = {}
  /\ isUploading = FALSE
  /\ uploadStatus = "null"
  /\ selectedWeek = ""
  /\ requests = {}
  /\ attempts = 0
  /\ completed = 0

\* ForecastSpreadsheet.fetchData, and the rowData the response renders
FetchData ==
  /\ sheet = "loading"
  /\ dashboardData' = dashboardRes
  /\ rowData' = rowDataOf(dashboardRes)
  /\ sheet' = "live"
  /\ UNCHANGED dashboardRes

\* DemoForecastSpreadsheet renders its mock data
RenderDemo ==
  /\ sheet = "loading"
  /\ rowData' = demoRowData
  /\ sheet' = "demo"
  /\ UNCHANGED <<dashboardRes, dashboardData>>

SheetNext ==
  \/ FetchData /\ UNCHANGED <<patternVars, forecastVars, panelVars, reviewVars, batchVars, editVars, v2Vars, saveVars, mapVars, dropVars>>
  \/ RenderDemo /\ UNCHANGED <<patternVars, forecastVars, panelVars, reviewVars, batchVars, editVars, v2Vars, saveVars, mapVars, dropVars>>

SheetSpec == SheetInit /\ [][SheetNext]_vars

----------------------------------------------------------------------------
(* Editing the cells of ForecastSpreadsheet.  Every vendor group cell is   *)
(* drawn by EditableCurrencyCellRenderer; editing is the cell whose        *)
(* renderer is in edit mode, cellUpdates the requests posted to            *)
(* /api/forecast/cell-update (was_actual notes what the cell showed when   *)
(* the request was made).                                                  *)

\* most cell-update requests in one behaviour
MaxCellUpdates == 2

NoCell == [vendor_group |-> "none", period |-> 0]

\* the values typed into the input: parseFloat(editValue) || 0
EditValues == {0, 6}

\* vg.is_inflow of the default groups
IsInflow(vg) == vg \in {"core_capital", "operating_revenue"}

\* a week that has been reconciled, and a week that has only forecasts
ReconciledWeekCells ==
  [vg \in Range(vendorGroups) |->
     IF vg = "core_capital" THEN ActualCell(3, 5)
     ELSE IF vg = "cc" THEN ActualCell(-3, -5)
     ELSE IF vg = "operating_revenue" THEN ForecastCell(4)
     ELSE ForecastCell(-2)]
ForecastWeekCells ==
  [vg \in Range(vendorGroups) |->
     IF vg = "core_capital" THEN ForecastCell(3)
     ELSE IF vg = "cc" THEN MissingCell
     ELSE IF vg = "operating_revenue" THEN ForecastCell(4)
     ELSE ForecastCell(-2)]

\* dashboards whose weeks are each reconciled or not
EditDashboards ==
  [forecast_data : [SheetPeriods -> {ReconciledWeekCells, ForecastWeekCells}],
   cash_balances : {[period \in SheetPeriods |-> [present |-> TRUE, beginning_balance |-> 10]]}]

\* the spreadsheet showing the dashboard data
EditInit ==
  /\ dashboardRes \in EditDashboards
  /\ dashboardData = dashboardRes
  /\ rowData = rowDataOf(dashboardRes)
  /\ sheet = "live"
  /\ editing = NoCell
  /\ cellUpdates = {}
  /\ transactions = <<>>
  /\ nowIsMidnight = FALSE
  /\ pc = "loaded"
  /\ result = NoResult
  /\ records = {}
  /\ op = NoOp
  /\ nops = 0
  /\ cash_balances = NoBalances
  /\ forecast_periods = NoPeriods
  /\ panel = NoPanels
  /\ week_lock = "none"
  /\ snapshot = NoSnapshots
  /\ patterns = NoPatterns
  /\ patternRecords = NoPatternRecords
  /\ reviewPc = "loading"
  /\ groupedByDisplay = <<>>
  /\ patternAnalysis = <<>>
  /\ batchPc = "idle"
  /\ patternsV2 = <<>>
  /\ currentIndex = 0
  /\ showAll = FALSE
  /\ editMode = FALSE
  /\ editedPattern = NoEdits
  /\ saving = FALSE
  /\ inflight = NoAction
  /\ v2pc = "idle"
  /\ saveRequest = NoSaveRequest
  /\ savePc = "idle"
  /\ saveI = 0
  /\ totalInserted = 0
  /\ txTable = <<>>
  /\ saveResponse = NoSaveResponse
  /\ vendorsTable = {}
  /\ vendors = NoVendors
  /\ mappingChanges = NoChanges
  /\ mapSaving = FALSE
  /\ mapPc = "idle"
  /\ mapAlert = "none"
  /\ storedBefore = {}
  /\ vendorRecords = {}
  /\ isUploading = FALSE
  /\ uploadStatus = "null"
  /\ selectedWeek = ""
  /\ requests = {}
  /\ attempts = 0
  /\ completed = 0

\* EditableCurrencyCellRenderer.handleDoubleClick on the cell of a vendor
\* group row
handleDoubleClick(vg, period) ==
  /\ sheet = "live"
  /\ editing = NoCell
  /\ editing' = [vendor_group |-> vg, period |-> period]
  /\ UNCHANGED <<dashboardRes, dashboardData, rowData, sheet, cellUpdates>>

\* data?.is_inflow === false ? -Math.abs(newValue) : Math.abs(newValue)
finalValue(vg, newValue) ==
  IF IsInflow(vg) THEN Abs(newValue) ELSE 0 - Abs(newValue)

\* handleSubmit (Enter or blur): setValue posts the cell update and
\* updateCellValue fetches the dashboard again.  The server either stores
\* the amount as the cell's forecast or leaves the data as it was (a failed
\* request is not followed by a fetch and leaves it so, too)
handleSubmit(newValue, stored) ==
  /\ editing # NoCell
  /\ Cardinality(cellUpdates) < MaxCellUpdates
  /\ LET vg == editing.vendor_group
         period == editing.period
         cell == dashboardData.forecast_data[period][vg]
         amount == finalValue(vg, newValue)
         updated == [dashboardRes EXCEPT !.forecast_data[period][vg] =
                       [cell EXCEPT !.present = TRUE, !.forecasted = amount]]
     IN  /\ cellUpdates' = cellUpdates \cup
                            {[forecast_date |-> period, vendor_group_id |-> vg,
                              new_amount |-> amount, was_actual |-> cell.is_actual]}
         /\ dashboardRes' = IF stored THEN updated ELSE dashboardRes
         /\ dashboardData' = dashboardRes'
         /\ rowData' = rowDataOf(dashboardRes')
  /\ editing' = NoCell
  /\ UNCHANGED sheet

\* handleKeyDown, Escape
handleKeyDownEscape ==
  /\ editing # NoCell
  /\ editing' = NoCell
  /\ UNCHANGED <<dashboardRes, dashboardData, rowData, sheet, cellUpdates>>

EditNext ==
  \/ \E vg \in Range(vendorGroups), period \in SheetPeriods :
       handleDoubleClick(vg, period)
         /\ UNCHANGED <<patternVars, forecastVars, panelVars, reviewVars, batchVars, v2Vars, saveVars, mapVars, dropVars>>
  \/ \E newValue \in EditValues, stored \in BOOLEAN :
       handleSubmit(newValue, stored)
         /\ UNCHANGED <<patternVars, forecastVars, panelVars, reviewVars, batchVars, v2Vars, saveVars, mapVars, dropVars>>
  \/ handleKeyDownEscape
       /\ UNCHANGED <<patternVars, forecastVars, panelVars, reviewVars, batchVars, v2Vars, saveVars, mapVars, dropVars>>

EditSpec == EditInit /\ [][EditNext]_vars

----------------------------------------------------------------------------
(* PatternReviewV2Page: loading, reviewing and moving between patterns.    *)
(* handleAction awaits the update of pattern_reviews; the buttons that     *)
(* call it are disabled while saving, Previous, Next, Cancel and the       *)
(* show-all checkbox are not, so those may run before the update answers.  *)
(* When it answers, handleAction goes on with the filteredPatterns,        *)
(* currentIndex and editMode of the render it was called in.               *)

filteredPatterns == filteredPatternsOf(patternsV2, showAll)
totalPatterns == Len(filteredPatterns)
\* filteredPatterns[currentIndex] is defined
HasCurrentPattern == 0 <= currentIndex /\ currentIndex < totalPatterns
currentPattern == filteredPatterns[currentIndex + 1]

V2Init ==
  /\ patternsV2 = <<>>
  /\ currentIndex = 0
  /\ showAll = FALSE
  /\ editMode = FALSE
  /\ editedPattern = NoEdits
  /\ saving = FALSE
  /\ inflight = NoAction
  /\ v2pc = "loading"
  /\ transactions = <<>>
  /\ nowIsMidnight = FALSE
  /\ pc = "loaded"
  /\ result = NoResult
  /\ records = {}
  /\ op = NoOp
  /\ nops = 0
  /\ cash_balances = NoBalances
  /\ forecast_periods = NoPeriods
  /\ dashboardRes = NoDashboard
  /\ dashboardData = NoDashboard
  /\ rowData = NoRows
  /\ sheet = "loading"
  /\ panel = NoPanels
  /\ week_lock = "none"
  /\ snapshot = NoSnapshots
  /\ patterns = NoPatterns
  /\ patternRecords = NoPatternRecords
  /\ reviewPc = "loading"
  /\ groupedByDisplay = <<>>
  /\ patternAnalysis = <<>>
  /\ batchPc = "idle"
  /\ editing = NoCell
  /\ cellUpdates = {}
  /\ saveRequest = NoSaveRequest
  /\ savePc = "idle"
  /\ saveI = 0
  /\ totalInserted = 0
  /\ txTable = <<>>
  /\ saveResponse = NoSaveResponse
  /\ vendorsTable = {}
  /\ vendors = NoVendors
  /\ mappingChanges = NoChanges
  /\ mapSaving = FALSE
  /\ mapPc = "idle"
  /\ mapAlert = "none"
  /\ storedBefore = {}
  /\ vendorRecords = {}
  /\ isUploading = FALSE
  /\ uploadStatus = "null"
  /\ selectedWeek = ""
  /\ requests = {}
  /\ attempts = 0
  /\ completed = 0

\* loadPatterns with saved reviews: loadTransactionsForPattern runs before
\* setPatterns(existingReviews) and so maps over the empty list; the index
\* of the first pending row is taken in existingReviews
LoadExistingReviews(existingReviews) ==
  /\ v2pc = "loading"
  /\ Len(existingReviews) > 0
  /\ patternsV2' = existingReviews
  /\ LET firstPendingIndex ==
           FindIndex(existingReviews, LAMBDA p, idx : p.status = "pending")
     IN  currentIndex' = IF firstPendingIndex >= 0 THEN firstPendingIndex ELSE 0
  /\ v2pc' = "ready"
  /\ UNCHANGED <<showAll, editMode, editedPattern, saving, inflight>>

\* loadPatterns without saved reviews: analyzeAndSavePatterns inserts the
\* fresh records and, unless the insert failed, sets them and loads the
\* transactions of the first
LoadFreshAnalysis(patternRecordsV2, insertError) ==
  /\ v2pc = "loading"
  /\ patternsV2' =
       IF insertError THEN patternsV2
       ELSE IF Len(patternRecordsV2) > 0
         THEN loadTransactionsForPattern(patternRecordsV2, patternRecordsV2[1].vendor_group)
       ELSE patternRecordsV2
  /\ v2pc' = "ready"
  /\ UNCHANGED <<currentIndex, showAll, editMode, editedPattern,
                 saving, inflight>>

\* handleAction up to the await of the update: updateData, and what the
\* rest of the handler will read from this render
handleActionCall(action) ==
  /\ v2pc = "ready"
  /\ HasCurrentPattern
  /\ ~saving
  /\ IF action = "save-edit" THEN editMode ELSE ~editMode
  /\ saving' = TRUE
  /\ LET nextPendingIndex ==
           FindIndex(filteredPatterns,
                     LAMBDA p, idx : idx > currentIndex /\ p.status = "pending")
         next == IF nextPendingIndex >= 0 THEN nextPendingIndex
                 ELSE IF currentIndex < totalPatterns - 1 THEN currentIndex + 1
                 ELSE 0 - 1
     IN  inflight' =
           [action |-> action,
            vendor_group |-> currentPattern.vendor_group,
            status |-> IF action = "skip" THEN "skipped" ELSE "reviewed",
            reviewed_at |-> action # "skip",
            pattern_type |-> IF action = "save-edit" /\ editedPattern.set
                             THEN editedPattern.pattern_type ELSE "none",
            editMode |-> editMode,
            next_index |-> next,
            next_vendor_group |-> IF next >= 0 THEN filteredPatterns[next + 1].vendor_group
                                  ELSE 0,
            answer |-> "none"]
  /\ UNCHANGED <<patternsV2, currentIndex, showAll, editMode,
                 editedPattern, v2pc>>

\* { ...p, ...updateData } with the status of the pattern left as it was
UpdatedKeepingStatus(p, updateData) ==
  [p EXCEPT !.reviewed_at = IF updateData.reviewed_at THEN TRUE ELSE @,
            !.pattern_type = IF updateData.pattern_type # "none"
                             THEN updateData.pattern_type ELSE @]

\* { ...p, ...updateData }
Updated(p, updateData) ==
  [p EXCEPT !.status = updateData.status,
            !.reviewed_at = IF updateData.reviewed_at THEN TRUE ELSE @,
            !.pattern_type = IF updateData.pattern_type # "none"
                             THEN updateData.pattern_type ELSE @]

\* handleAction from the answer of the update on: nothing but saving = false
\* on an error (returned or thrown); else the record of the pattern acted on
\* is updated, edit mode left, and the page moves to the next pending
\* pattern, or the next one, and loads its transactions
handleActionAnswer(error) ==
  /\ saving
  /\ inflight.action # "none"
  /\ saving' = FALSE
  /\ inflight' = [NoAction EXCEPT !.answer = IF error THEN "error" ELSE "ok"]
  /\ IF error
       THEN UNCHANGED <<patternsV2, currentIndex, editMode, editedPattern>>
       ELSE LET updated == [i \in 1..Len(patternsV2) |->
                              IF patternsV2[i].vendor_group = inflight.vendor_group
                              THEN Updated(patternsV2[i], inflight) ELSE patternsV2[i]]
                moves == inflight.action # "save-edit" \/ inflight.editMode
            IN  /\ patternsV2' =
                     IF moves /\ inflight.next_index >= 0
                     THEN loadTransactionsForPattern(updated, inflight.next_vendor_group)
                     ELSE updated
                /\ currentIndex' =
                     IF moves /\ inflight.next_index >= 0 THEN inflight.next_index
                     ELSE currentIndex
                /\ editMode' = IF moves THEN FALSE ELSE editMode
                /\ editedPattern' = IF moves THEN NoEdits ELSE editedPattern
  /\ UNCHANGED <<showAll, v2pc>>

startEdit ==
  /\ v2pc = "ready"
  /\ HasCurrentPattern
  /\ ~editMode
  /\ ~saving
  /\ editMode' = TRUE
  /\ editedPattern' = [set |-> TRUE, pattern_type |-> currentPattern.pattern_type]
  /\ UNCHANGED <<patternsV2, currentIndex, showAll, saving, inflight, v2pc>>

\* the Pattern select of the edit form
setEditedPatternType(value) ==
  /\ v2pc = "ready"
  /\ HasCurrentPattern
  /\ editMode
  /\ editedPattern' = [set |-> TRUE, pattern_type |-> value]
  /\ UNCHANGED <<patternsV2, currentIndex, showAll, editMode, saving,
                 inflight, v2pc>>

CancelEdit ==
  /\ v2pc = "ready"
  /\ HasCurrentPattern
  /\ editMode
  /\ editMode' = FALSE
  /\ editedPattern' = NoEdits
  /\ UNCHANGED <<patternsV2, currentIndex, showAll, saving, inflight, v2pc>>

Previous ==
  /\ v2pc = "ready"
  /\ HasCurrentPattern
  /\ ~editMode
  /\ currentIndex > 0
  /\ currentIndex' = currentIndex - 1
  /\ patternsV2' = loadTransactionsForPattern(patternsV2,
                                             filteredPatterns[currentIndex].vendor_group)
  /\ UNCHANGED <<showAll, editMode, editedPattern, saving, inflight, v2pc>>

NextPattern ==
  /\ v2pc = "ready"
  /\ HasCurrentPattern
  /\ ~editMode
  /\ currentIndex < totalPatterns - 1
  /\ currentIndex' = currentIndex + 1
  /\ patternsV2' = loadTransactionsForPattern(patternsV2,
                                             filteredPatterns[currentIndex + 2].vendor_group)
  /\ UNCHANGED <<showAll, editMode, editedPattern, saving, inflight, v2pc>>

\* the show-all checkbox, rendered when there is a pattern to review
ToggleShowAll ==
  /\ v2pc = "ready"
  /\ totalPatterns > 0
  /\ showAll' = ~showAll
  /\ currentIndex' = 0
  /\ UNCHANGED <<patternsV2, editMode, editedPattern, saving, inflight, v2pc>>

V2Others == <<patternVars, forecastVars, sheetVars, panelVars, reviewVars, batchVars, editVars, saveVars, mapVars, dropVars>>

V2Next ==
  \/ \E existingReviews \in StoredReviews :
       LoadExistingReviews(existingReviews) /\ UNCHANGED V2Others
  \/ \E patternRecordsV2 \in FreshRecords, insertError \in BOOLEAN :
       LoadFreshAnalysis(patternRecordsV2, insertError) /\ UNCHANGED V2Others
  \/ \E action \in {"approve", "skip", "save-edit"} :
       handleActionCall(action) /\ UNCHANGED V2Others
  \/ \E error \in BOOLEAN : handleActionAnswer(error) /\ UNCHANGED V2Others
  \/ startEdit /\ UNCHANGED V2Others
  \/ setEditedPatternType("monthly") /\ UNCHANGED V2Others
  \/ CancelEdit /\ UNCHANGED V2Others
  \/ Previous /\ UNCHANGED V2Others
  \/ NextPattern /\ UNCHANGED V2Others
  \/ ToggleShowAll /\ UNCHANGED V2Others

V2Spec == V2Init /\ [][V2Next]_vars

----------------------------------------------------------------------------
(* The batch of vendor groups of one client: loadPatterns and              *)
(* analyzeAndSavePatterns group the transactions by display name and       *)
(* analyze every group in one loop.  patternAnalysis is the list handed to *)
(* setPatterns, kept by vendor group (the sort by total value only orders  *)
(* it); it stays empty when setPatterns is never reached.                  *)

BatchGroups == {"v1", "v2", "v3"}

\* the transaction dates of one vendor group, newest first: weekly, monthly,
\* a single transaction, two of the same day, all older than the window,
\* and lists with unparsable dates.  A group has at least one transaction
BatchHistories ==
  {<<0, -7, -14>>, <<-1, -31, -61>>, <<-3>>, <<-2, -2>>, <<-100, -130>>,
   <<InvalidDate, -4>>, <<InvalidDate, InvalidDate>>, <<InvalidDate, -7, -14>>}

\* groupedByDisplay.forEach((txs, displayName) => analyzePattern(txs))
AnalyzeGroups(grouped, midnight) ==
  [g \in DOMAIN grouped |-> analyzePattern(grouped[g], midnight)]

AnalyzeGroupsV2(grouped, midnight) ==
  [g \in DOMAIN grouped |-> analyzePatternV2(grouped[g], midnight)]

\* the loop given up as soon as one group comes out irregular
AbortedOnIrregular(analyses) ==
  \E g \in DOMAIN analyses :
    analyses[g].raised \/ analyses[g].detected_pattern = "irregular"

\* an exception thrown for one group leaves the loop and is caught by the
\* try around the whole of loadPatterns
Aborted(analyses) == \E g \in DOMAIN analyses : analyses[g].raised

BatchInit ==
  /\ groupedByDisplay \in
       UNION {[G -> BatchHistories] : G \in {{"v1", "v2"}, BatchGroups}}
  /\ nowIsMidnight \in BOOLEAN
  /\ patternAnalysis = <<>>
  /\ batchPc = "loaded"
  /\ transactions = <<>>
  /\ pc = "loaded"
  /\ result = NoResult
  /\ records = {}
  /\ op = NoOp
  /\ nops = 0
  /\ cash_balances = NoBalances
  /\ forecast_periods = NoPeriods
  /\ dashboardRes = NoDashboard
  /\ dashboardData = NoDashboard
  /\ rowData = NoRows
  /\ sheet = "loading"
  /\ panel = NoPanels
  /\ week_lock = "none"
  /\ snapshot = NoSnapshots
  /\ patterns = NoPatterns
  /\ patternRecords = NoPatternRecords
  /\ reviewPc = "loading"
  /\ editing = [vendor_group |-> "none", period |-> 0]
  /\ cellUpdates = {}
  /\ patternsV2 = <<>>
  /\ currentIndex = 0
  /\ showAll = FALSE
  /\ editMode = FALSE
  /\ editedPattern = NoEdits
  /\ saving = FALSE
  /\ inflight = NoAction
  /\ v2pc = "idle"
  /\ saveRequest = NoSaveRequest
  /\ savePc = "idle"
  /\ saveI = 0
  /\ totalInserted = 0
  /\ txTable = <<>>
  /\ saveResponse = NoSaveResponse
  /\ vendorsTable = {}
  /\ vendors = NoVendors
  /\ mappingChanges = NoChanges
  /\ mapSaving = FALSE
  /\ mapPc = "idle"
  /\ mapAlert = "none"
  /\ storedBefore = {}
  /\ vendorRecords = {}
  /\ isUploading = FALSE
  /\ uploadStatus = "null"
  /\ selectedWeek = ""
  /\ requests = {}
  /\ attempts = 0
  /\ completed = 0

\* loadPatterns of pattern-review/page.tsx, the queries having succeeded
LoadPatternsBatch ==
  /\ batchPc = "loaded"
  /\ LET analyses == AnalyzeGroups(groupedByDisplay, nowIsMidnight)
     IN  IF Aborted(analyses)
           THEN patternAnalysis' = patternAnalysis /\ batchPc' = "failed"
           ELSE patternAnalysis' = analyses /\ batchPc' = "done"
  /\ UNCHANGED groupedByDisplay

\* analyzeAndSavePatterns of pattern-review-v2/page.tsx: the records are
\* inserted into pattern_reviews in one request, and setPatterns runs only
\* if the insert reported no error
AnalyzeAndSavePatternsBatch(insertError) ==
  /\ batchPc = "loaded"
  /\ LET analyses == AnalyzeGroupsV2(groupedByDisplay, nowIsMidnight)
     IN  IF Aborted(analyses)
           THEN patternAnalysis' = patternAnalysis /\ batchPc' = "failed"
         ELSE IF insertError
           THEN patternAnalysis' = patternAnalysis /\ batchPc' = "insertError"
         ELSE patternAnalysis' = analyses /\ batchPc' = "doneV2"
  /\ UNCHANGED groupedByDisplay

BatchNext ==
  \/ LoadPatternsBatch
       /\ UNCHANGED <<patternVars, forecastVars, sheetVars, panelVars, reviewVars, editVars, v2Vars, saveVars, mapVars, dropVars>>
  \/ \E insertError \in BOOLEAN :
       AnalyzeAndSavePatternsBatch(insertError)
         /\ UNCHANGED <<patternVars, forecastVars, sheetVars, panelVars, reviewVars, editVars, v2Vars, saveVars, mapVars, dropVars>>

BatchSpec == BatchInit /\ [][BatchNext]_vars

Analyzed == pc \in {"done", "doneV2"}

----------------------------------------------------------------------------
(* POST /api/save-transactions.  The handler awaits every insert, so one   *)
(* step runs from one await to the next.                                   *)

SaveInit ==
  /\ saveRequest = NoSaveRequest
  /\ savePc = "idle"
  /\ saveI = 0
  /\ totalInserted = 0
  /\ txTable = <<>>
  /\ saveResponse = NoSaveResponse
  /\ patternsV2 = <<>>
  /\ currentIndex = 0
  /\ showAll = FALSE
  /\ editMode = FALSE
  /\ editedPattern = NoEdits
  /\ saving = FALSE
  /\ inflight = NoAction
  /\ v2pc = "loading"
  /\ transactions = <<>>
  /\ nowIsMidnight = FALSE
  /\ pc = "loaded"
  /\ result = NoResult
  /\ records = {}
  /\ op = NoOp
  /\ nops = 0
  /\ cash_balances = NoBalances
  /\ forecast_periods = NoPeriods
  /\ dashboardRes = NoDashboard
  /\ dashboardData = NoDashboard
  /\ rowData = NoRows
  /\ sheet = "loading"
  /\ panel = NoPanels
  /\ week_lock = "none"
  /\ snapshot = NoSnapshots
  /\ patterns = NoPatterns
  /\ patternRecords = NoPatternRecords
  /\ reviewPc = "loading"
  /\ groupedByDisplay = <<>>
  /\ patternAnalysis = <<>>
  /\ batchPc = "idle"
  /\ editing = NoCell
  /\ cellUpdates = {}
  /\ vendorsTable = {}
  /\ vendors = NoVendors
  /\ mappingChanges = NoChanges
  /\ mapSaving = FALSE
  /\ mapPc = "idle"
  /\ mapAlert = "none"
  /\ storedBefore = {}
  /\ vendorRecords = {}
  /\ isUploading = FALSE
  /\ uploadStatus = "null"
  /\ selectedWeek = ""
  /\ requests = {}
  /\ attempts = 0
  /\ completed = 0

\* the head of the for loop with i and totalInserted as they stand: the next
\* insert is awaited, or the loop is over and the handler answers success
LoopHead(req, i, total) ==
  /\ saveI' = i
  /\ totalInserted' = total
  /\ IF i < Len(req.transactions)
     THEN /\ savePc' = "insert"
          /\ saveResponse' = saveResponse
     ELSE /\ savePc' = "done"
          /\ saveResponse' = [status |-> 200, success |-> TRUE, error |-> "none",
                              inserted |-> total]

\* POST up to the first insert: the body is checked, then the environment
POST(req, configured) ==
  /\ savePc = "idle"
  /\ saveRequest' = req
  /\ txTable' = txTable
  /\ IF ~req.isArray \/ ~req.clientName
     THEN /\ savePc' = "done"
          /\ saveResponse' = [NoSaveResponse EXCEPT !.status = 400,
                                                    !.error = "Invalid data"]
          /\ UNCHANGED <<saveI, totalInserted>>
     ELSE IF ~configured
     THEN /\ savePc' = "done"
          /\ saveResponse' = [NoSaveResponse EXCEPT !.status = 500,
                                !.error = "Server configuration error"]
          /\ UNCHANGED <<saveI, totalInserted>>
     ELSE LoopHead(req, 0, 0)

\* the awaited insert of one batch comes back: with no error the loop goes
\* on, with an error the handler answers with the count so far, and when
\* the call throws the catch block answers
InsertBatch(outcome) ==
  /\ savePc = "insert"
  /\ saveRequest' = saveRequest
  /\ LET batch == slice(saveRequest.transactions, saveI, saveI + batchSize)
     IN  CASE outcome = "ok" ->
                /\ txTable' = txTable \o batch
                /\ LoopHead(saveRequest, saveI + batchSize, totalInserted + Len(batch))
           [] outcome = "error" ->
                /\ savePc' = "done"
                /\ saveResponse' = [status |-> 500, success |-> FALSE,
                                    error |-> "Failed to save transactions",
                                    inserted |-> totalInserted]
                /\ UNCHANGED <<txTable, saveI, totalInserted>>
           [] outcome = "throw" ->
                /\ savePc' = "done"
                /\ saveResponse' = [NoSaveResponse EXCEPT !.status = 500,
                                                          !.error = "Server error"]
                /\ UNCHANGED <<txTable, saveI, totalInserted>>

SaveOthers == <<patternVars, forecastVars, sheetVars, panelVars, reviewVars,
                batchVars, editVars, v2Vars, mapVars, dropVars>>

SaveNext ==
  \/ \E req \in SaveRequests, configured \in BOOLEAN :
       POST(req, configured) /\ UNCHANGED SaveOthers
  \/ \E outcome \in {"ok", "error", "throw"} :
       InsertBatch(outcome) /\ UNCHANGED SaveOthers

SaveSpec == SaveInit /\ [][SaveNext]_vars

----------------------------------------------------------------------------
(* The vendor-mapping page: loadVendors, handleMappingChange and           *)
(* saveMappings, which awaits the delete of the client's rows and then the *)
(* insert of the new ones.                                                 *)

MapInit ==
  /\ vendorsTable \in StoredMappings
  /\ vendors = NoVendors
  /\ mappingChanges = NoChanges
  /\ mapSaving = FALSE
  /\ mapPc = "loading"
  /\ mapAlert = "none"
  /\ storedBefore = {}
  /\ vendorRecords = {}
  /\ patternsV2 = <<>>
  /\ currentIndex = 0
  /\ showAll = FALSE
  /\ editMode = FALSE
  /\ editedPattern = NoEdits
  /\ saving = FALSE
  /\ inflight = NoAction
  /\ v2pc = "loading"
  /\ transactions = <<>>
  /\ nowIsMidnight = FALSE
  /\ pc = "loaded"
  /\ result = NoResult
  /\ records = {}
  /\ op = NoOp
  /\ nops = 0
  /\ cash_balances = NoBalances
  /\ forecast_periods = NoPeriods
  /\ dashboardRes = NoDashboard
  /\ dashboardData = NoDashboard
  /\ rowData = NoRows
  /\ sheet = "loading"
  /\ panel = NoPanels
  /\ week_lock = "none"
  /\ snapshot = NoSnapshots
  /\ patterns = NoPatterns
  /\ patternRecords = NoPatternRecords
  /\ reviewPc = "loading"
  /\ groupedByDisplay = <<>>
  /\ patternAnalysis = <<>>
  /\ batchPc = "idle"
  /\ editing = NoCell
  /\ cellUpdates = {}
  /\ saveRequest = NoSaveRequest
  /\ savePc = "idle"
  /\ saveI = 0
  /\ totalInserted = 0
  /\ txTable = <<>>
  /\ saveResponse = NoSaveResponse
  /\ isUploading = FALSE
  /\ uploadStatus = "null"
  /\ selectedWeek = ""
  /\ requests = {}
  /\ attempts = 0
  /\ completed = 0

\* mappingLookup.get(vendor_name): the display name stored for the vendor
mappingLookup(v) ==
  IF \E r \in vendorsTable : r.vendor_name = v
  THEN (CHOOSE r \in vendorsTable : r.vendor_name = v).display_name
  ELSE Undefined

\* the display name loadVendors gives a vendor: the stored one, else the
\* vendor name itself, which an auto-mapping rule may replace
loadedDisplayName(v) ==
  LET display_name == IF mappingLookup(v) # Undefined THEN mappingLookup(v) ELSE v
  IN  IF display_name = v /\ autoMapRule(v) # Undefined
      THEN autoMapRule(v) ELSE display_name

\* loadVendors: txVendors are the vendor names of the client's
\* transactions; when the select fails the list stays empty
loadVendors(txVendors, error) ==
  /\ mapPc = "loading"
  /\ vendors' = IF error THEN NoVendors
                ELSE [v \in txVendors |-> loadedDisplayName(v)]
  /\ mapPc' = "ready"
  /\ UNCHANGED <<vendorsTable, mappingChanges, mapSaving, mapAlert,
                 storedBefore, vendorRecords>>

handleMappingChange(vendor_name, new_display_name) ==
  /\ mapPc = "ready"
  /\ vendor_name \in DOMAIN vendors
  /\ mappingChanges' = [mappingChanges EXCEPT ![vendor_name] = new_display_name]
  /\ UNCHANGED <<vendorsTable, vendors, mapSaving, mapPc, mapAlert,
                 storedBefore, vendorRecords>>

getCurrentDisplayName(v) ==
  IF mappingChanges[v] # Undefined THEN mappingChanges[v] ELSE vendors[v]

\* saveMappings up to the awaited delete: the records of the page's vendors
\* are prepared; storedBefore notes the rows the table holds at the call
saveMappingsCall ==
  /\ mapPc = "ready"
  /\ mapSaving' = TRUE
  /\ vendorRecords' = {[vendor_name |-> v, display_name |-> getCurrentDisplayName(v)] :
                         v \in DOMAIN vendors}
  /\ storedBefore' = vendorsTable
  /\ mapPc' = "delete"
  /\ UNCHANGED <<vendorsTable, vendors, mappingChanges, mapAlert>>

\* catch and finally of saveMappings
saveMappingsFailed ==
  /\ mapAlert' = "Failed to save mappings. Please try again."
  /\ mapSaving' = FALSE
  /\ mapPc' = "done"

\* the delete comes back.  Its result is not looked at: only a thrown
\* error reaches the catch
DeleteAnswer(outcome) ==
  /\ mapPc = "delete"
  /\ vendorsTable' = IF outcome = "ok" THEN {} ELSE vendorsTable
  /\ IF outcome = "throw"
     THEN saveMappingsFailed
     ELSE /\ mapPc' = "insert"
          /\ UNCHANGED <<mapSaving, mapAlert>>
  /\ UNCHANGED <<vendors, mappingChanges, storedBefore, vendorRecords>>

\* the insert comes back: the rows are stored and the page reports success,
\* or nothing is stored and the error is thrown to the catch
InsertAnswer(outcome) ==
  /\ mapPc = "insert"
  /\ IF outcome = "ok"
     THEN /\ vendorsTable' = vendorsTable \cup
                {VendorRow(Cardinality(VendorNames) + VendorIndex(r.vendor_name),
                           r.vendor_name, r.display_name) : r \in vendorRecords}
          /\ mapAlert' = "Vendor mappings saved successfully!"
          /\ mapSaving' = FALSE
          /\ mapPc' = "done"
     ELSE /\ vendorsTable' = vendorsTable
          /\ saveMappingsFailed
  /\ UNCHANGED <<vendors, mappingChanges, storedBefore, vendorRecords>>

MapOthers == <<patternVars, forecastVars, sheetVars, panelVars, reviewVars,
               batchVars, editVars, v2Vars, saveVars, dropVars>>

MapNext ==
  \/ \E txVendors \in SUBSET VendorNames, error \in BOOLEAN :
       loadVendors(txVendors, error) /\ UNCHANGED MapOthers
  \/ \E v \in VendorNames, d \in DisplayNames :
       handleMappingChange(v, d) /\ UNCHANGED MapOthers
  \/ saveMappingsCall /\ UNCHANGED MapOthers
  \/ \E outcome \in {"ok", "error", "throw"} :
       DeleteAnswer(outcome) /\ UNCHANGED MapOthers
  \/ \E outcome \in {"ok", "error", "throw"} :
       InsertAnswer(outcome) /\ UNCHANGED MapOthers

MapSpec == MapInit /\ [][MapNext]_vars

----------------------------------------------------------------------------
(* One ReconciliationPanel over time.  requests are the axios.post calls   *)
(* of onDrop that have not settled yet, each with the week and the number  *)
(* of the upload it belongs to; attempts counts the uploads started and    *)
(* completed the calls of onReconciliationComplete.  The dropzone and the  *)
(* week select are rendered from isUploading: while they are disabled a    *)
(* drop or a selection does nothing.                                       *)

\* uploads one panel starts
MaxUploads == 4
\* getWeekOptions: the current week and earlier ones
WeekOptions == {"week0", "week1", "week2"}
\* what is dropped: nothing acceptable, a file that is no CSV, a CSV file
Drops == {"none", "statement.pdf", "mercury.csv"}
\* how the awaited axios.post settles: response.data.success, a response
\* without success, a rejected promise
Settlements == {"success", "failure", "throw"}

DropInit ==
  /\ isUploading = FALSE
  /\ uploadStatus = "null"
  /\ selectedWeek = ""
  /\ requests = {}
  /\ attempts = 0
  /\ completed = 0
  /\ patternsV2 = <<>>
  /\ currentIndex = 0
  /\ showAll = FALSE
  /\ editMode = FALSE
  /\ editedPattern = NoEdits
  /\ saving = FALSE
  /\ inflight = NoAction
  /\ v2pc = "loading"
  /\ transactions = <<>>
  /\ nowIsMidnight = FALSE
  /\ pc = "loaded"
  /\ result = NoResult
  /\ records = {}
  /\ op = NoOp
  /\ nops = 0
  /\ cash_balances = NoBalances
  /\ forecast_periods = NoPeriods
  /\ dashboardRes = NoDashboard
  /\ dashboardData = NoDashboard
  /\ rowData = NoRows
  /\ sheet = "loading"
  /\ panel = NoPanels
  /\ week_lock = "none"
  /\ snapshot = NoSnapshots
  /\ patterns = NoPatterns
  /\ patternRecords = NoPatternRecords
  /\ reviewPc = "loading"
  /\ groupedByDisplay = <<>>
  /\ patternAnalysis = <<>>
  /\ batchPc = "idle"
  /\ editing = NoCell
  /\ cellUpdates = {}
  /\ saveRequest = NoSaveRequest
  /\ savePc = "idle"
  /\ saveI = 0
  /\ totalInserted = 0
  /\ txTable = <<>>
  /\ saveResponse = NoSaveResponse
  /\ vendorsTable = {}
  /\ vendors = NoVendors
  /\ mappingChanges = NoChanges
  /\ mapSaving = FALSE
  /\ mapPc = "idle"
  /\ mapAlert = "none"
  /\ storedBefore = {}
  /\ vendorRecords = {}

\* useDropzone({ disabled: isUploading }) with the dropzone always enabled
dropzoneNeverDisabled == FALSE

\* useDropzone({ disabled: isUploading })
dropzoneDisabled == isUploading

\* setSelectedWeek: the effect after mount and the week select, which is
\* disabled while uploading
setSelectedWeek(week) ==
  /\ ~isUploading
  /\ selectedWeek' = week
  /\ UNCHANGED <<isUploading, uploadStatus, requests, attempts, completed>>

\* onDrop up to the first await: the early returns, or the request is sent
onDrop(file) ==
  /\ ~dropzoneDisabled
  /\ attempts < MaxUploads
  /\ IF file = "none" \/ selectedWeek = ""
     THEN /\ uploadStatus' = "Please select a file and week to reconcile"
          /\ UNCHANGED <<isUploading, requests, attempts>>
     ELSE IF file # "mercury.csv"
     THEN /\ uploadStatus' = "Please upload a CSV file"
          /\ UNCHANGED <<isUploading, requests, attempts>>
     ELSE /\ isUploading' = TRUE
          /\ uploadStatus' = "Processing Mercury CSV..."
          /\ requests' = requests \cup
                           {[upload |-> attempts + 1, week_start_date |-> selectedWeek]}
          /\ attempts' = attempts + 1
  /\ UNCHANGED <<selectedWeek, completed>>

\* onDrop after the await of a request: the status of the outcome, then the
\* finally block
onDropSettled(request, settlement) ==
  /\ request \in requests
  /\ requests' = requests \ {request}
  /\ uploadStatus' = CASE settlement = "success" -> "Reconciliation completed successfully!"
                       [] settlement = "failure" -> "Reconciliation failed: message"
                       [] settlement = "throw" -> "Reconciliation failed: error"
  /\ completed' = IF settlement = "success" THEN completed + 1 ELSE completed
  /\ isUploading' = FALSE
  /\ UNCHANGED <<selectedWeek, attempts>>

DropOthers == <<patternVars, forecastVars, sheetVars, panelVars, reviewVars,
                batchVars, editVars, v2Vars, saveVars, mapVars>>

DropNext ==
  \/ \E week \in WeekOptions : setSelectedWeek(week) /\ UNCHANGED DropOthers
  \/ \E file \in Drops : onDrop(file) /\ UNCHANGED DropOthers
  \/ \E request \in requests, settlement \in Settlements :
       onDropSettled(request, settlement) /\ UNCHANGED DropOthers

\* every request settles: it succeeds, reports failure or throws
RequestsSettle ==
  WF_vars(\E request \in requests, settlement \in Settlements :
            onDropSettled(request, settlement) /\ UNCHANGED DropOthers)

DropSpec == DropInit /\ [][DropNext]_vars /\ RequestsSettle

----------------------------------------------------------------------------
(* Claims about analyzePattern *)

recentTxs == recentTxsOf(transactions, nowIsMidnight)

\* at least two transactions, every consecutive pair exactly d days apart
IsRegular(txs, d) ==
  /\ Len(txs) >= 2
  /\ \A i \in 1..(Len(txs) - 1) : txs[i] - txs[i + 1] = d

WeeklyAndConfident ==
  /\ result.detected_pattern = "weekly"
  /\ ~result.confidence_nan
  /\ result.confidence >= 90

C2_FewerThanThreeIsIrregular ==
  (Analyzed /\ Len(recentTxs) < 3)
    => /\ result.detected_pattern = "irregular"
       /\ ~result.confidence_nan
       /\ result.confidence = 0

\* the frequency class section 4.2 assigns to the gap statistic sum / n
SpecifiedClass(sum, n) ==
  IF 2 * sum <= 3 * n THEN "daily"
  ELSE IF sum <= 8 * n THEN "weekly"
  ELSE IF sum <= 17 * n THEN "bi-weekly"
  ELSE IF sum <= 35 * n THEN "monthly"
  ELSE IF sum <= 100 * n THEN "quarterly"
  ELSE "annual"

\* C6: with enough transactions to classify, the class is the bucket of the
\* gap statistic: <= 1.5 daily, <= 8 weekly, <= 17 biweekly, <= 35 monthly,
\* <= 100 quarterly, above 100 annual
C6_ClassIsBucketOfGapStatistic ==
  (Analyzed /\ Len(recentTxs) >= 3)
    => result.detected_pattern =
         SpecifiedClass(SumSeq(intervalsOf(recentTxs)), Len(intervalsOf(recentTxs)))

\* all gaps are d except exactly one, and at least three are d
OneOutlier(gaps, d) ==
  /\ Len(gaps) >= 4
  /\ Cardinality({i \in 1..Len(gaps) : gaps[i] # d}) = 1

\* C7: one outlier gap added to a series of 7-day gaps (whose median stays 7)
\* leaves the class weekly
C7_OutlierKeepsWeekly ==
  (/\ Analyzed
   /\ Len(recentTxs) = Len(transactions)
   /\ Len(recentTxs) >= 2
   /\ OneOutlier(intervalsOf(recentTxs), 7))
    => result.detected_pattern = "weekly"

\* C8: the confidence is always a number, between 0 and 100
C8_ConfidenceIsClampedNumber ==
  Analyzed => (~result.confidence_nan /\ result.confidence \in 0..100)

\* days between the oldest and the newest transaction of the lookback window
SpanDays(txs) == Abs(txs[1] - txs[Len(txs)])

\* C9: the confidence is at most the completeness factor span / lookback
\* (on the percent scale, half a point allowed for rounding), so a short
\* history cannot report a confidence near 100
C9_ConfidenceScaledByCompleteness ==
  (Analyzed /\ Len(recentTxs) >= 2 /\ ~result.confidence_nan)
    => 2 * result.confidence * LookbackDays
         <= 200 * SpanDays(recentTxs) + LookbackDays

\* the dates of a set, ascending
RECURSIVE AscendingDates(_)
AscendingDates(S) ==
  IF S = {} THEN <<>>
  ELSE LET first == CHOOSE x \in S : \A y \in S : x <= y
       IN  <<first>> \o AscendingDates(S \ {first})

\* the day gaps between consecutive distinct dates, oldest first
DistinctDateGaps(txs) ==
  LET dates == AscendingDates(Range(txs))
  IN  [i \in 1..(Len(dates) - 1) |-> dates[i + 1] - dates[i]]

Reverse(s) == [i \in 1..Len(s) |-> s[Len(s) + 1 - i]]

\* C20: the gaps analyzePattern works on are those between consecutive
\* distinct dates (transactions of one date count once), so none is 0
C20_GapsBetweenDistinctDates ==
  (Analyzed /\ Len(recentTxs) >= 2)
    => /\ Reverse(intervalsOf(recentTxs)) = DistinctDateGaps(recentTxs)
       /\ \A i \in 1..Len(intervalsOf(recentTxs)) : intervalsOf(recentTxs)[i] # 0

\* the transactions a classification can use: the date parses and lies in
\* the lookback window
Usable(d) ==
  /\ d # InvalidDate
  /\ IF nowIsMidnight THEN d >= 0 - LookbackDays ELSE d > 0 - LookbackDays

usableTxs == SelectSeq(transactions, Usable)

\* C21: malformed or insufficient input degrades instead of raising: a
\* transaction with an unparsable date is skipped and the sample reduced to
\* the usable transactions, and with fewer than 2 usable transactions in the
\* lookback window (0 or 1 supplied included) the result is irregular with
\* confidence 0, and nothing is thrown
C21_MalformedInputDegrades ==
  Analyzed =>
    /\ ~result.raised
    /\ Len(recentTxs) = Len(usableTxs)
    /\ (Len(usableTxs) >= 2 => result = Classified(usableTxs))
    /\ (Len(usableTxs) < 2 =>
          /\ result.detected_pattern = "irregular"
          /\ ~result.confidence_nan
          /\ result.confidence = 0)

\* two dated transactions a week apart and one with an unparsable date in
\* front of them: the unparsable one is skipped, the other two give weekly
C21_Witness ==
  /\ Analyzed
  /\ Len(transactions) = 3
  /\ transactions[1] = InvalidDate
  /\ Len(usableTxs) = 2
  /\ result.detected_pattern = "weekly"
  /\ ~result.raised

\* C22: every result with frequency irregular has no timing descriptor (no
\* projected next date) and confidence 0, also when it is irregular because
\* the gap statistic lies outside every bucket
C22_IrregularHasNoTimingAndZeroConfidence ==
  (Analyzed /\ result.detected_pattern = "irregular")
    => /\ ~result.has_next_date
       /\ ~result.confidence_nan
       /\ result.confidence = 0

----------------------------------------------------------------------------
(* Claims about editing the spreadsheet *)

\* C25: a reconciled week is locked from edits in the spreadsheet: a cell
\* that shows an actual value is never in edit mode and no cell-update
\* request is ever issued for one; only forecast cells are edited
C25_ActualCellsAreNotEditable ==
  /\ editing # NoCell =>
       ~dashboardData.forecast_data[editing.period][editing.vendor_group].is_actual
  /\ \A u \in cellUpdates : ~u.was_actual

----------------------------------------------------------------------------
(* Claims about PatternReviewV2Page *)

\* C26: whenever filteredPatterns is not empty, currentIndex is a valid
\* index into it, after loadPatterns and after any sequence of approve,
\* skip, save-edit, Previous, Next and show-all toggles, so currentPattern
\* is always defined
C26_CurrentIndexIsValid ==
  (v2pc = "ready" /\ totalPatterns > 0) => HasCurrentPattern

\* the update of a handleAction has just answered
StepAnswer == saving /\ ~saving'

\* every record but that of the pattern handleAction was called on is as it
\* was
OnlyActedPatternChanges ==
  /\ Len(patternsV2') = Len(patternsV2)
  /\ \A i \in 1..Len(patternsV2) :
       patternsV2[i].vendor_group # inflight.vendor_group
         => patternsV2'[i] = patternsV2[i]

ErrorChangesNothing ==
  inflight'.answer = "error"
    => /\ patternsV2' = patternsV2
       /\ currentIndex' = currentIndex
       /\ editMode' = editMode

----------------------------------------------------------------------------
(* Claims about the batch of vendor groups *)

\* the group has fewer than 2 usable transactions: too few in the lookback
\* window, or too few left once the unparsable dates are skipped
Degraded(g) ==
  Len(SelectSeq(groupedByDisplay[g], Usable)) < 2

----------------------------------------------------------------------------
(* Claims about POST /api/save-transactions *)

\* the rows of the request that one step of the handler stores
Stored == Len(txTable') - Len(txTable)

\* C28: every insert stores at most batchSize rows, after full batches
\* only, and the table holds the rows of the request in input order up to
\* the last stored one; a failing batch ends the handler and leaves the
\* earlier batches in the table; the inserted count of the response is the
\* number of rows stored, and it is the length of the request exactly when
\* the response is success
C28_BatchesInOrderAndCounted ==
  [][/\ Stored \in 0..batchSize
     /\ Stored > 0 => Len(txTable) % batchSize = 0
     /\ txTable' = SubSeq(saveRequest'.transactions, 1, Len(txTable'))
     /\ (savePc' = "done" /\ ~saveResponse'.success) => txTable' = txTable
     /\ savePc = "done" => UNCHANGED saveVars
     /\ saveResponse'.success
          => saveResponse'.inserted = Len(saveRequest'.transactions)
     /\ (savePc' = "done" /\ saveResponse'.inserted # NoCount)
          => /\ saveResponse'.inserted = Len(txTable')
             /\ saveResponse'.inserted = Len(saveRequest'.transactions)
                  <=> saveResponse'.success]_vars

\* the second batch of a request failed: the first batch stays stored and
\* is what the response counts
C28_Witness ==
  /\ savePc = "done"
  /\ saveResponse.error = "Failed to save transactions"
  /\ saveResponse.inserted = batchSize
  /\ Len(saveRequest.transactions) > batchSize
  /\ Len(txTable) = batchSize

----------------------------------------------------------------------------
(* Claims about the vendor-mapping page *)

\* C29: once saveMappings is through, the client's rows in the vendors
\* table are exactly the new mappings when success was reported, and
\* exactly the rows stored before the call when failure was reported
C29_SaveMappingsAllOrNothing ==
  mapPc = "done"
    => \/ /\ mapAlert = "Vendor mappings saved successfully!"
          /\ MappingsOf(vendorsTable) = vendorRecords
          /\ Cardinality(vendorsTable) = Cardinality(vendorRecords)
       \/ /\ mapAlert = "Failed to save mappings. Please try again."
          /\ vendorsTable = storedBefore

----------------------------------------------------------------------------
(* Claims about one ReconciliationPanel *)

----------------------------------------------------------------------------
(* Claims about generate and reconcile *)

\* the row's date lies in the window of reconcile operation o
InWindowOf(o, r) == o.week_start <= r.forecast_date /\ r.forecast_date <= o.week_end

StepGenerate == op'.name = "generate" /\ nops' = nops + 1
StepReconcile == op'.name = "reconcile" /\ nops' = nops + 1

\* C3: a reconcile that directly follows a generate and brings, for every row
\* generated, actuals summing to its forecast leaves each of those rows as
\* the only row of its key, locked, with the actual equal to the forecast
\* and variance 0
C3_RoundTrip ==
  [][(StepReconcile /\ IsRoundTrip(op, op'.week_start, op'.week_end, op'.actuals))
       => \A d \in op.generated :
            /\ Cardinality(RowsAt(records', op.vendor_group, d)) = 1
            /\ \A r \in RowsAt(records', op.vendor_group, d) :
                 /\ r.is_locked
                 /\ r.is_actual
                 /\ r.actual_amount = r.forecasted_amount
                 /\ r.variance_amount = 0]_vars

\* a reconcile has just round-tripped the rows of the preceding generate
C3_Witness ==
  /\ op.name = "reconcile"
  /\ op.roundtrip
  /\ \E r \in records :
       /\ r.is_locked /\ r.is_actual /\ r.variance_amount = 0
       /\ InWindowOf(op, r)
       /\ ActualSum(op.actuals, r.vendor_group, r.forecast_date) = r.forecasted_amount

\* C4: a reconcile that repeats the previous reconcile (same week, same
\* actuals) leaves every forecast record as the first run left it
C4_ReconcileIdempotent ==
  [][(StepReconcile /\ IsRerun(op, op'.week_start, op'.week_end, op'.actuals))
       => records' = records]_vars

\* the second of two identical reconciles has run, over a row the first one
\* locked with the sum of two actuals
C4_Witness ==
  /\ op.name = "reconcile"
  /\ op.rerun
  /\ \E r \in records :
       /\ r.is_locked
       /\ InWindowOf(op, r)
       /\ Len(op.actuals) = 2
       /\ r.actual_amount = op.actuals[1].amount + op.actuals[2].amount
       /\ r.actual_amount = ActualSum(op.actuals, r.vendor_group, r.forecast_date)

\* C5: generate leaves every locked row in place and untouched, and as the
\* only row of its (vendor_group, date)
C5_GenerateKeepsLocked ==
  [][StepGenerate
       => \A r \in records :
            r.is_locked => RowsAt(records', r.vendor_group, r.forecast_date) = {r}]_vars

\* a generate has just run over a date that holds a locked row, with another
\* amount than the row's forecast
C5_Witness ==
  /\ op.name = "generate"
  /\ \E r \in records :
       /\ r.is_locked
       /\ r.vendor_group = op.vendor_group
       /\ r.forecast_date \in op.dates
       /\ r.forecasted_amount # op.amount
  /\ op.generated # {}

\* C10: reconcile sets, on every unlocked row in the window whose key has
\* actuals, actual_amount to the sum of those actuals, variance to actual minus
\* forecast and is_locked to true; rows outside the window are unchanged
C10_ReconcileUpdates ==
  [][StepReconcile
       => LET ws == op'.week_start
              we == op'.week_end
              actuals == op'.actuals
              Outside(rows) == {r \in rows : r.forecast_date < ws \/ r.forecast_date > we}
              HasActuals(r) == \E i \in 1..Len(actuals) :
                                 /\ actuals[i].vendor_group = r.vendor_group
                                 /\ actuals[i].date = r.forecast_date
          IN  /\ \A r \in {x \in records : /\ ~x.is_locked
                                           /\ ws <= x.forecast_date
                                           /\ x.forecast_date <= we
                                           /\ HasActuals(x)} :
                   LET sum == ActualSum(actuals, r.vendor_group, r.forecast_date)
                   IN  RowsAt(records', r.vendor_group, r.forecast_date) =
                         {[r EXCEPT !.is_actual = TRUE, !.actual_amount = sum,
                                    !.variance_amount = sum - r.forecasted_amount,
                                    !.is_locked = TRUE]}
              /\ Outside(records') = Outside(records)]_vars

\* a reconcile has locked a row with the sum of two actuals and a non-zero
\* variance, while a row outside its window exists
C10_Witness ==
  /\ op.name = "reconcile"
  /\ Len(op.actuals) = 2
  /\ \E r \in records :
       /\ r.is_locked
       /\ InWindowOf(op, r)
       /\ r.actual_amount = op.actuals[1].amount + op.actuals[2].amount
       /\ r.variance_amount = r.actual_amount - r.forecasted_amount
       /\ r.variance_amount # 0
  /\ \E r \in records : ~InWindowOf(op, r)

\* C23: a generate for a vendor group whose pattern is irregular emits no
\* forecast record, whatever the horizon and the start date: the table is
\* left as it was
C23_IrregularEmitsNoRecords ==
  [][(StepGenerate /\ op'.pattern = "irregular")
       => (op'.generated = {} /\ records' = records)]_vars

\* an irregular vendor group has just been generated next to the forecast of
\* another group, and has no row
C23_Witness ==
  /\ op.name = "generate"
  /\ op.pattern = "irregular"
  /\ records # {}
  /\ \A r \in records : r.vendor_group # op.vendor_group

\* C11: a locked record stays in the table, unchanged and locked, across every
\* later operation (generate, regenerate, reconcile)
C11_LockIsTerminal ==
  [][\A r \in records : r.is_locked => r \in records']_vars

\* a reconcile has just brought, for a row locked earlier, actuals that sum
\* to another amount than the one the row was locked with
C11_Witness ==
  /\ op.name = "reconcile"
  /\ ~op.rerun
  /\ \E r \in records :
       /\ r.is_locked
       /\ InWindowOf(op, r)
       /\ <<r.vendor_group, r.forecast_date>>
            \in ActualKeys(op.week_start, op.week_end, op.actuals)
       /\ r.actual_amount # ActualSum(op.actuals, r.vendor_group, r.forecast_date)

\* C12: the table never holds two rows of the same (vendor_group, date)
C12_OneRecordPerKey ==
  \A r1 \in records, r2 \in records :
    (r1.vendor_group = r2.vendor_group /\ r1.forecast_date = r2.forecast_date)
      => r1 = r2

\* a regenerate has just replaced an unlocked row by one of another amount
\* next to a locked row of the same vendor group
C12_Witness ==
  /\ op.name = "generate"
  /\ op.replaced # {}
  /\ nops = MaxOps
  /\ \E r \in records : r.is_locked /\ r.vendor_group = op.vendor_group
  /\ \A d \in op.replaced :
       \E r \in RowsAt(records, op.vendor_group, d) :
         r.forecasted_amount = op.amount /\ ~r.is_locked

\* the (vendor_group, date) keys of the actuals of the last reconcile
LastActualKeys == ActualKeys(op.week_start, op.week_end, op.actuals)

----------------------------------------------------------------------------
(* Claims about the spreadsheet rows *)

Rendered == sheet \in {"live", "demo"}

\* C14: in the rendered rows the Beginning Cash of every period after the
\* first equals the Ending Cash of the period before
C14_BeginningIsPreviousEnding ==
  Rendered
    => \A k \in DOMAIN rowData.ending_cash :
         (k + 1) \in DOMAIN rowData.beginning_cash
           => rowData.beginning_cash[k + 1] = rowData.ending_cash[k]

\* the amount a cell stands for: nothing when there is no record, the actual
\* when it is reconciled, the forecast otherwise
SpecifiedAmount(data) ==
  IF ~data.present THEN 0
  ELSE IF data.is_actual THEN data.actual
  ELSE data.forecasted

\* the cash flow of a period: the amounts of all its vendor groups
PeriodCashFlow(dd, period) ==
  SumSeq([i \in 1..Len(vendorGroups) |->
            SpecifiedAmount(dd.forecast_data[period][vendorGroups[i]])])

\* the known starting balance: the stored beginning balance of the first period
StartingBalance(dd) ==
  IF dd.cash_balances[1].present THEN dd.cash_balances[1].beginning_balance ELSE 0

\* C15: the net cash flow shown for a period is the sum of the actual of every
\* reconciled cell and the forecast of every other cell, a missing cell
\* counting 0, and Ending Cash accumulates these flows in period order from
\* the starting balance
C15_CashFlowSumsActualOrForecast ==
  sheet = "live"
    => \A k \in SheetPeriods :
         /\ rowData.net_operating_cf[k] + rowData.net_financing_cf[k]
              = PeriodCashFlow(dashboardData, k)
         /\ rowData.ending_cash[k]
              = StartingBalance(dashboardData)
                  + SumSeq([j \in 1..k |-> PeriodCashFlow(dashboardData, j)])

\* rows rendered from a stored starting balance and a period holding a
\* reconciled cell whose actual differs from its forecast, a forecast cell
\* and a missing cell
C15_Witness ==
  /\ sheet = "live"
  /\ dashboardData.cash_balances[1].present
  /\ \E k \in SheetPeriods :
       LET cells == dashboardData.forecast_data[k]
       IN  /\ cells["core_capital"].is_actual
           /\ cells["core_capital"].actual # cells["core_capital"].forecasted
           /\ rowData.vendor_group[k]["core_capital"] = cells["core_capital"].actual
           /\ ~cells["operating_revenue"].present
           /\ cells["distributions"].present
  /\ rowData.ending_cash[3] # rowData.beginning_cash[1]

----------------------------------------------------------------------------
(* Claims about concurrent reconcile runs *)

AllDone == \A p \in Panels : panel[p].pc = "done"

\* the table after the runs of the two files one after the other
SerialResult(first, second) ==
  ReconcileRows(ReconcileRows(GeneratedTable, SelectedWeek.week_start,
                              SelectedWeek.week_end, first),
                SelectedWeek.week_start, SelectedWeek.week_end, second)

\* C17: once two concurrent uploads for the same week are through, the
\* forecast records are those of the two runs in one order or the other
C17_RunsAreSerial ==
  AllDone => records \in {SerialResult(panel["p1"].file, panel["p2"].file),
                          SerialResult(panel["p2"].file, panel["p1"].file)}

----------------------------------------------------------------------------
(* Claims about the forecast amount *)

\* a number has been typed into the Average Amount field
OverridePresent == patterns.override_amount.set /\ ~patterns.override_amount.nan

\* C18: when an override amount is present, 0 included, the saved record
\* carries the override and not the detected amount
C18_OverrideTakesPrecedence ==
  (patternRecords.saved /\ OverridePresent)
    => patternRecords.average_amount = [num |-> patterns.override_amount.value, den |-> 1]

\* 30-day months counted back from today: 0 is the most recent
MonthOf(tx) == (0 - tx.transaction_date) \div 30

InMonth(txs, m) == SelectSeq(txs, LAMBDA tx : MonthOf(tx) = m)

AmountSum(txs) == SumSeq([i \in 1..Len(txs) |-> txs[i].amount])

\* the amount section 4.3 prescribes, as a fraction: with transactions in each
\* of the three months (2*M0 + M1 + M2) / 4, M being the month's average,
\* otherwise the mean of all amounts
SpecifiedAmountOf(txs) ==
  LET m0 == InMonth(txs, 0)
      m1 == InMonth(txs, 1)
      m2 == InMonth(txs, 2)
  IN  IF Len(m0) > 0 /\ Len(m1) > 0 /\ Len(m2) > 0
      THEN [num |-> 2 * AmountSum(m0) * Len(m1) * Len(m2)
                      + AmountSum(m1) * Len(m0) * Len(m2)
                      + AmountSum(m2) * Len(m0) * Len(m1),
            den |-> 4 * Len(m0) * Len(m1) * Len(m2)]
      ELSE [num |-> AmountSum(txs), den |-> Len(txs)]

SameFraction(a, b) == a.num * b.den = b.num * a.den

\* C19: with no override, for a history of positive amounts that lies in the
\* lookback window, the detected amount is the 2:1:1 weighted average of
\* the three monthly averages, or the plain mean with fewer than three
\* months of history
C19_WeightedMonthlyAverage ==
  (/\ reviewPc # "loading"
   /\ Len(patterns.transactions) > 0
   /\ \A i \in 1..Len(patterns.transactions) :
        /\ patterns.transactions[i].amount > 0
        /\ InLookback(patterns.transactions[i].transaction_date, FALSE))
    => SameFraction(patterns.detected_amount, SpecifiedAmountOf(patterns.transactions))

====
